---- MODULE Spec2Model ----
(***************************************************************************)
(* crew-board: task store reconciliation (data/task.rs), worktree          *)
(* provisioning (worktree.rs), worktree cleanup (cleanup.rs) and the       *)
(* create / cleanup popup controllers (app.rs).                            *)
(*                                                                         *)
(* A task id "TASK_<digits>" is modelled by the sequence of its digits     *)
(* (<<0,0,1>> is "TASK_001", <<1>> is "TASK_1"); the empty sequence is an  *)
(* id with no numeric suffix.  String order on ids is the lexicographic    *)
(* order of the digit sequences.                                           *)
(***************************************************************************)
EXTENDS Integers, Sequences, FiniteSets, TLC

\* ------------------------------------------------------------------ bounds
\* largest task number used for a directory name or a registry id
MaxNum == 3
\* largest number of lines of the registry log a load check starts from
MaxReg == 1
\* largest number of operations in a run of the provisioning checks
MaxOps == 2
\* largest number of ids handed to one execute_cleanup call
MaxIds == 2

\* ------------------------------------------------------------ id strings
RECURSIVE DigitsOf(_)
\* decimal digits of n, most significant first (Rust's {} for an integer)
DigitsOf(n) == IF n < 10 THEN <<n>> ELSE Append(DigitsOf(n \div 10), n % 10)

\* format!("TASK_{:03}", n): zero-padded to at least three digits
FormatId(n) ==
    LET d == DigitsOf(n)
    IN  IF Len(d) = 1 THEN <<0, 0>> \o d
        ELSE IF Len(d) = 2 THEN <<0>> \o d
        ELSE d

RECURSIVE ParseNum(_)
\* str::parse::<u32> of the digit suffix; -1 stands for Err
ParseNum(s) ==
    IF Len(s) = 0 THEN -1
    ELSE IF Len(s) = 1 THEN s[1]
    ELSE 10 * ParseNum(SubSeq(s, 1, Len(s) - 1)) + s[Len(s)]

RECURSIVE StrLess(_, _)
\* a < b in Rust's String order (lexicographic, a proper prefix is smaller)
StrLess(a, b) ==
    IF Len(b) = 0 THEN FALSE
    ELSE IF Len(a) = 0 THEN TRUE
    ELSE IF a[1] # b[1] THEN a[1] < b[1]
    ELSE StrLess(Tail(a), Tail(b))

StrLeq(a, b) == a = b \/ StrLess(a, b)

SetMax(S) == IF S = {} THEN 0 ELSE CHOOSE m \in S : \A x \in S : x <= m

\* ------------------------------------------------------------- variables
VARIABLES
    git_marker,     \* what <repo>/.git is: "dir", "file" (a worktree) or "none"
    tasks_dir,      \* TRUE iff the task store directory .tasks/ exists
    store,          \* directory name -> contents of that task subdirectory
    registry,       \* the lines of .tasks/.registry.jsonl, oldest first
    worktrees,      \* the ids that have a directory under <repo>-worktrees/
    branches,       \* the branch names of the repository besides the base
    op,             \* the operation called last
    args,           \* its arguments and what the external commands did
    tasks,          \* result of load_tasks
    candidates,     \* result of list_cleanup_candidates
    next_id,        \* result of get_next_task_id
    created,        \* result of create_worktree
    previewed,      \* result of worktree::preview
    cleaned,        \* result of execute_cleanup
    actions,        \* result of preview_cleanup
    returned_text,  \* the text slugify or generate_branch_name returned
    loaded_registry,  \* the map load_registry returned
    nops,           \* number of operations made so far
    app,            \* the App: loaded tasks, last refresh, the two popups
    workers         \* the worker threads of the create and the cleanup flow

disk == <<git_marker, tasks_dir, store, registry, worktrees, branches>>
results == <<tasks, candidates, next_id, created, previewed, cleaned, actions,
            returned_text, loaded_registry>>
ui == <<app, workers>>
vars == <<disk, op, args, results, nops, ui>>

\* ------------------------------------------------------- task store data
\* Texts (descriptions, branch names, messages) are sequences of characters;
\* <<>> is the empty string.
DirNames == {FormatId(n) : n \in 1..MaxNum}

PHASE_ORDER ==
    <<"architect", "developer", "reviewer", "skeptic", "implementer",
      "technical_writer">>

REQUIRED == {"architect", "developer", "reviewer", "implementer", "technical_writer"}

\* a parseable document.  wt is the status of the worktree binding, "none"
\* when the document has no binding; phase is "none" when it has no phase.
Doc(id, desc, phase, phases, iter, wt, branch, base, color) ==
    [k |-> "ok", task_id |-> id, description |-> desc, phase |-> phase,
     phases_completed |-> phases, iteration |-> iter, wt |-> wt,
     branch |-> branch, base_branch |-> base, color_scheme_index |-> color]

\* serde's defaults for the fields a document leaves out
DefaultDoc(id) == Doc(id, <<>>, "none", {}, 0, "none", <<>>, <<>>, 0)

NoDoc == [DefaultDoc(<<>>) EXCEPT !.k = "absent"]
BadDoc == [DefaultDoc(<<>>) EXCEPT !.k = "bad"]

\* a task subdirectory: whether it exists, its state.json and its metadata.json
Dir(state, meta) == [present |-> TRUE, state |-> state, meta |-> meta]
NoDir == [present |-> FALSE, state |-> NoDoc, meta |-> NoDoc]

\* a registry line: a parseable entry or a line that is skipped
RegLine(id, desc, branch) ==
    [ok |-> TRUE, task_id |-> id, description |-> desc, branch |-> branch,
     created_at |-> "t"]
BadLine == [ok |-> FALSE, task_id |-> <<>>, description |-> <<>>, branch |-> <<>>,
            created_at |-> ""]
\* a line of white space only
BlankLine == [BadLine EXCEPT !.created_at = " "]

\* ------------------------------------------------------------ data/task.rs
\* TaskState::is_complete: all required phases are in phases_completed
is_complete(t) == REQUIRED \subseteq t.phases_completed

\* the TASK_<n> numbers of the subdirectories present in the task store
OnDiskNums(st) ==
    {ParseNum(n) : n \in {d \in DOMAIN st : st[d].present /\ ParseNum(d) >= 0}}

\* TaskState::from_metadata wrapped in a LoadedTask (archived = true); the
\* binding exists when the legacy document names a branch
FromMetadata(d, meta) ==
    [dir |-> d, archived |-> TRUE, task_id |-> meta.task_id,
     description |-> meta.description, phase |-> "none",
     phases_completed |-> {}, iteration |-> 0,
     wt |-> IF meta.branch # <<>> THEN "" ELSE "none",
     branch |-> meta.branch, base_branch |-> meta.base_branch,
     color_scheme_index |-> 0, created_at |-> "t0"]

\* a parsed state.json wrapped in a LoadedTask (archived = false)
FromState(d, state) ==
    [dir |-> d, archived |-> FALSE, task_id |-> state.task_id,
     description |-> state.description, phase |-> state.phase,
     phases_completed |-> state.phases_completed, iteration |-> state.iteration,
     wt |-> state.wt, branch |-> state.branch, base_branch |-> state.base_branch,
     color_scheme_index |-> state.color_scheme_index, created_at |-> "t0"]

\* a per-directory step that tries metadata.json whenever state.json gives no
\* record, whether it is absent, unreadable or malformed
LoadDirFallbackOnFailure(d, c) ==
    IF c.state.k = "ok" THEN <<FromState(d, c.state)>>
    ELSE IF c.meta.k = "ok" THEN <<FromMetadata(d, c.meta)>> ELSE <<>>

\* what one directory entry contributes to the list (step 1 of load_tasks)
LoadDir(d, c) ==
    IF c.state.k = "absent"
    THEN IF c.meta.k = "ok" THEN <<FromMetadata(d, c.meta)>> ELSE <<>>
    ELSE IF c.state.k = "ok" THEN <<FromState(d, c.state)>> ELSE <<>>

RECURSIVE ScanDirs(_, _)
\* the records pushed while iterating read_dir in the order it yields entries
ScanDirs(st, order) ==
    IF order = <<>> THEN <<>>
    ELSE LoadDir(order[1], st[order[1]]) \o ScanDirs(st, Tail(order))

\* a load that gives up at the first line it cannot use: only the parseable
\* lines before that line are loaded
load_registry_until_skipped_line(log) ==
    LET good == {i \in DOMAIN log : \A j \in 1..i : log[j].ok}
        ids == {log[i].task_id : i \in good}
        last(id) == CHOOSE i \in good :
                       /\ log[i].task_id = id
                       /\ \A j \in good : log[j].task_id = id => j <= i
    IN  IF ids = {} THEN << >> ELSE [id \in ids |-> log[last(id)]]

RECURSIVE load_registry(_)
\* task_id -> entry; a later line with the same id replaces the earlier one
load_registry(log) ==
    IF log = <<>> THEN << >>
    ELSE LET rest == load_registry(SubSeq(log, 1, Len(log) - 1))
             l == log[Len(log)]
         IN  IF l.ok
             THEN [id \in (DOMAIN rest) \cup {l.task_id} |->
                      IF id = l.task_id THEN l ELSE rest[id]]
             ELSE rest

\* load_registry from the read on: read_to_string fails for a missing file
\* and for one that is not readable as text, and the map is empty then
load_registry_file(read_ok, log) ==
    IF ~read_ok THEN << >> ELSE load_registry(log)

\* a placeholder that never looks at the registry
PlaceholderUnhydrated(id, reg) ==
    [FromMetadata(id, DefaultDoc(id)) EXCEPT !.created_at = "",
                                             !.description = <<"(deleted)">>]

\* the archived placeholder pushed for a number without loaded record (step 4)
Placeholder(id, reg) ==
    LET blank == [FromMetadata(id, DefaultDoc(id)) EXCEPT !.created_at = ""]
    IN  IF id \in DOMAIN reg
        THEN [blank EXCEPT !.description = reg[id].description,
                           !.created_at = reg[id].created_at,
                           !.wt = IF reg[id].branch # <<>> THEN "" ELSE "none",
                           !.branch = reg[id].branch]
        ELSE [blank EXCEPT !.description = <<"(deleted)">>]

RECURSIVE FillGaps(_, _, _, _)
\* for num in from..=max_num: a placeholder unless a loaded record has the id
FillGaps(from, max_num, ids, reg) ==
    IF from > max_num THEN <<>>
    ELSE (IF FormatId(from) \in ids THEN <<>>
          ELSE <<Placeholder(FormatId(from), reg)>>)
         \o FillGaps(from + 1, max_num, ids, reg)

RECURSIVE InsertSorted(_, _)
\* insert t after every element whose key is <= its key (keeps the sort stable)
InsertSorted(sorted, t) ==
    IF sorted = <<>> THEN <<t>>
    ELSE IF StrLeq(sorted[1].task_id, t.task_id)
         THEN <<sorted[1]>> \o InsertSorted(Tail(sorted), t)
         ELSE <<t>> \o sorted

RECURSIVE SortByTaskId(_)
\* Vec::sort_by(|a, b| a.task_id.cmp(&b.task_id)): a stable sort on the string
SortByTaskId(s) ==
    IF s = <<>> THEN <<>>
    ELSE InsertSorted(SortByTaskId(SubSeq(s, 1, Len(s) - 1)), s[Len(s)])

MaxFromRegistry(reg) ==
    SetMax({ParseNum(id) : id \in {i \in DOMAIN reg : ParseNum(i) >= 0}})

\* load_tasks on a task store whose read_dir yields the entries in `order`
load_tasks(exists, st, log, order) ==
    IF ~exists THEN <<>>
    ELSE LET loaded == ScanDirs(st, order)
             reg == load_registry(log)
             max_num == SetMax({SetMax(OnDiskNums(st)), MaxFromRegistry(reg)})
             ids == {loaded[i].task_id : i \in DOMAIN loaded}
         IN  SortByTaskId(loaded \o FillGaps(1, max_num, ids, reg))

\* ------------------------------------------------------------ worktree.rs
\* get_next_task_id: scans the TASK_<n> subdirectories only
get_next_task_id(exists, st) ==
    FormatId((IF exists THEN SetMax(OnDiskNums(st)) ELSE 0) + 1)

\* the characters descriptions are made of: a lower and an upper case letter,
\* a digit, white space, underscore, dash, punctuation and a capital whose
\* lower case is two characters
Chars == {"a", "B", "1", " ", "_", "-", "!", "I_dot"}

Letters ==
    <<"a", "b", "c", "d", "e", "f", "g", "h", "i", "j", "k", "l", "m",
      "n", "o", "p", "q", "r", "s", "t", "u", "v", "w", "x", "y", "z">>

Capitals ==
    <<"A", "B", "C", "D", "E", "F", "G", "H", "I", "J", "K", "L", "M",
      "N", "O", "P", "Q", "R", "S", "T", "U", "V", "W", "X", "Y", "Z">>

Digits == {"0", "1", "2", "3", "4", "5", "6", "7", "8", "9"}

\* char::to_lowercase: a capital gives its letter; the capital I with a dot
\* above (U+0130) gives two characters, i and the combining dot above
Lower(c) ==
    IF c = "I_dot" THEN <<"i", "dot_above">>
    ELSE IF \E i \in DOMAIN Capitals : Capitals[i] = c
         THEN <<Letters[CHOOSE i \in DOMAIN Capitals : Capitals[i] = c]>>
         ELSE <<c>>

\* str::to_lowercase: the lower case of every character, in order (two
\* places per character, the second one empty unless the lower case has two)
ToLowercase(text) ==
    LET places == [j \in 1..(2 * Len(text)) |->
                      LET l == Lower(text[(j + 1) \div 2])
                      IN  IF j % 2 = 1 THEN l[1]
                          ELSE IF Len(l) = 2 THEN l[2] ELSE ""]
    IN  SelectSeq(places, LAMBDA c : c # "")

\* matched by \s
IsWhitespace(c) == c \in {" ", "\t", "\n"}

\* not matched by [^a-z0-9\s_-]
IsSlugChar(c) ==
    \/ \E i \in DOMAIN Letters : Letters[i] = c
    \/ c \in Digits
    \/ IsWhitespace(c)
    \/ c \in {"_", "-"}

\* matched by [\s_]
IsSpace(c) == IsWhitespace(c) \/ c = "_"

IsDash(c) == c = "-"

\* Regex::replace_all of every maximal run of characters of the class by "-";
\* cls is "space" for [\s_]+ and "dash" for -+; in_run tells that the text
\* follows a character of the class
DashRuns(text, cls, in_run) ==
    LET hit(i) == IF cls = "space" THEN IsSpace(text[i]) ELSE IsDash(text[i])
        first(i) == hit(i) /\ (IF i = 1 THEN ~in_run ELSE ~hit(i - 1))
        at == SelectSeq([i \in DOMAIN text |-> i], LAMBDA i : ~hit(i) \/ first(i))
    IN  [k \in DOMAIN at |-> IF hit(at[k]) THEN "-" ELSE text[at[k]]]

RECURSIVE TrimStart(_)
TrimStart(text) ==
    IF text # <<>> /\ text[1] = "-" THEN TrimStart(Tail(text)) ELSE text

RECURSIVE TrimEnd(_)
\* str::trim_end_matches('-')
TrimEnd(text) ==
    IF text # <<>> /\ text[Len(text)] = "-"
    THEN TrimEnd(SubSeq(text, 1, Len(text) - 1)) ELSE text

\* a slug whose dash runs are left as they are
slugify_dash_runs_kept(text) ==
    LET kept == SelectSeq(ToLowercase(text), IsSlugChar)
        dashed == DashRuns(kept, "space", FALSE)
    IN  TrimEnd(TrimStart(dashed))

\* slugify: lowercase, drop, collapse white space and dashes, trim dashes
slugify(text) ==
    LET kept == SelectSeq(ToLowercase(text), IsSlugChar)
        dashed == DashRuns(DashRuns(kept, "space", FALSE), "dash", FALSE)
    IN  TrimEnd(TrimStart(dashed))

\* the slug is cut to this many characters
SlugMax == 50

CrewPrefix == <<"c", "r", "e", "w", "/">>

Fallback == CrewPrefix \o <<"n", "e", "w", "-", "t", "a", "s", "k">>

\* a name cut to SlugMax characters and left as cut
generate_branch_name_as_cut(description) ==
    LET slug == slugify(description)
        truncated == IF Len(slug) > SlugMax THEN SubSeq(slug, 1, SlugMax) ELSE slug
    IN  IF slug = <<>> THEN Fallback ELSE CrewPrefix \o truncated

generate_branch_name(description) ==
    LET slug == slugify(description)
        truncated == IF Len(slug) > SlugMax THEN SubSeq(slug, 1, SlugMax) ELSE slug
    IN  IF slug = <<>> THEN Fallback ELSE CrewPrefix \o TrimEnd(truncated)

\* COLOR_SCHEME_HEX.len()
PaletteSize == 8

MainBranch == <<"main">>

\* Result<_, String>: Ok carries the value's fields, Err the message (a fixed
\* text followed by the stderr or OS error it quotes)
\* worktree_abs is <repo>-worktrees/<task_id>, named by the id here
Ok(id, branch, base, color) ==
    [ok |-> TRUE, task_id |-> id, branch_name |-> branch, worktree_abs |-> id,
     base_branch |-> base, color_scheme_index |-> color, err |-> <<>>]
Err(msg, detail) ==
    [ok |-> FALSE, task_id |-> <<>>, branch_name |-> <<>>, worktree_abs |-> <<>>,
     base_branch |-> <<>>, color_scheme_index |-> 0, err |-> <<msg, detail>>]
NoResult == Err("", "")

\* the task number itself as the color index
color_scheme_index_unwrapped(id) == IF ParseNum(id) >= 0 THEN ParseNum(id) ELSE 0

\* the color of a new task: its number (0 when the id does not parse) modulo
\* the palette size
color_scheme_index_of(id) ==
    (IF ParseNum(id) >= 0 THEN ParseNum(id) ELSE 0) % PaletteSize

\* get_current_branch: git branch --show-current, per what git did
get_current_branch(git) ==
    IF git = "spawn_err" THEN Err("Failed to run git: ", "os error")
    ELSE IF git = "nonzero" THEN Err("Failed to detect current branch", "")
    ELSE Ok(<<>>, <<>>, IF git = "empty" THEN <<>> ELSE MainBranch, 0)

\* create_initial_state
create_initial_state(id, desc, branch, base, color) ==
    Doc(id, desc, "architect", {}, 1, "active", branch, base, color)

\* an append that writes the log anew with the one entry
append_to_registry_truncating(log, id, desc, branch, succeeds) ==
    IF succeeds THEN <<RegLine(id, desc, branch)>> ELSE log

\* append_to_registry: best effort, a failed open or write is swallowed
append_to_registry(log, id, desc, branch, succeeds) ==
    IF succeeds THEN Append(log, RegLine(id, desc, branch)) ELSE log

\* .git exists at all: the test a check with exists() in place of is_dir() makes
validate_repo_exists(marker, inside_msg) ==
    IF marker # "none" THEN Ok(<<>>, <<>>, <<>>, 0)
    ELSE Err("Not a git repository", "")

\* the test both create_worktree and preview start with: .git must be a
\* directory; a file means the path is itself a worktree
validate_repo(marker, inside_msg) ==
    IF marker = "dir" THEN Ok(<<>>, <<>>, <<>>, 0)
    ELSE IF marker = "file" THEN Err(inside_msg, "")
    ELSE Err("Not a git repository", "")

\* a failed worktree add that leaves the task subdirectory in place
keep_task_dir(st, id) == st

\* std::fs::remove_dir_all(&task_dir) after a failed worktree add
remove_task_dir(st, id) == [st EXCEPT ![id] = NoDir]

\* the steps of create_worktree an external failure can hit, in order
FailPoints ==
    {"none", "branch_spawn", "branch_nonzero", "branch_empty", "fetch_spawn", "fetch",
     "pull_spawn", "pull", "mk_tasks", "mk_task_dir", "write_state", "mk_wt_base", "add_spawn",
     "add_nonzero", "symlink"}

\* a fetch and pull whose failures go unnoticed
fetch_and_pull_unchecked(e) == Ok(<<>>, <<>>, <<>>, 0)

\* fetch_and_pull: git fetch origin, then git pull origin <base>; a command
\* that cannot be started gives the OS error, a non-zero exit its stderr
fetch_and_pull(e) ==
    IF e.fail = "fetch_spawn" THEN Err("git fetch failed: ", "os error")
    ELSE IF e.fail = "fetch" THEN Err("git fetch failed: ", e.stderr)
    ELSE IF e.fail = "pull_spawn" THEN Err("git pull failed: ", "os error")
    ELSE IF e.fail = "pull" THEN Err("git pull failed: ", e.stderr)
    ELSE Ok(<<>>, <<>>, <<>>, 0)

\* the value create_worktree leaves behind: the disk and the returned Result
Ret(td, st, reg, wts, brs, res) ==
    [tasks_dir |-> td, store |-> st, registry |-> reg, worktrees |-> wts,
     branches |-> brs, result |-> res]

\* worktree::preview: no access modifies the disk
preview(marker, td, st, desc, git) ==
    IF ~validate_repo(marker, "Already inside a worktree").ok
    THEN validate_repo(marker, "Already inside a worktree")
    ELSE LET id == get_next_task_id(td, st)
             cur == get_current_branch(git)
         IN  Ok(id, generate_branch_name(desc),
                IF cur.ok THEN cur.base_branch ELSE MainBranch,
                (IF ParseNum(id) >= 0 THEN ParseNum(id) ELSE 0) % PaletteSize)

\* create_worktree.  e.fail names the external step that fails if reached,
\* e.append_ok whether the registry append succeeds, e.stderr what a failing
\* git command writes to stderr.
create_worktree(marker, td, st, reg, wts, brs, desc, pull, e) ==
    LET same(res) == Ret(td, st, reg, wts, brs, res)
        cur == get_current_branch(
                  IF e.fail = "branch_spawn" THEN "spawn_err"
                  ELSE IF e.fail = "branch_nonzero" THEN "nonzero"
                  ELSE IF e.fail = "branch_empty" THEN "empty" ELSE "ok")
        base == cur.base_branch
        id == get_next_task_id(TRUE, st)
        branch == generate_branch_name(desc)
        color == color_scheme_index_of(id)
        st_dir == [st EXCEPT ![id] = Dir(NoDoc, NoDoc)]
        st_doc == [st EXCEPT ![id] =
                     Dir(create_initial_state(id, desc, branch, base, color), NoDoc)]
        st_gone == remove_task_dir(st_doc, id)
        valid == validate_repo(marker,
                    "Already inside a worktree. Create from the main repo.")
        reg2 == append_to_registry(reg, id, desc, branch, e.append_ok)
    IN  IF ~valid.ok THEN same(valid)
        ELSE IF ~cur.ok THEN same(cur)
        ELSE IF base = <<>> THEN same(Err("Could not detect current branch", ""))
        ELSE IF pull /\ ~fetch_and_pull(e).ok THEN same(fetch_and_pull(e))
        ELSE IF ~td /\ e.fail = "mk_tasks"
             THEN same(Err("Failed to create .tasks/: ", "os error"))
        ELSE IF e.fail = "mk_task_dir"
             THEN Ret(TRUE, st, reg, wts, brs,
                      Err("Failed to create task directory: ", "os error"))
        ELSE IF e.fail = "write_state"
             THEN Ret(TRUE, st_dir, reg, wts, brs,
                      Err("Failed to write state.json: ", "os error"))
        ELSE IF e.fail = "mk_wt_base"
             THEN Ret(TRUE, st_doc, reg2, wts, brs,
                      Err("Failed to create worktrees directory: ", "os error"))
        ELSE IF e.fail = "add_spawn"
             THEN Ret(TRUE, st_doc, reg2, wts, brs,
                      Err("git worktree add failed: ", "os error"))
        \* git refuses a path or a branch name that exists already
        ELSE IF e.fail = "add_nonzero" \/ id \in wts \/ branch \in brs
             THEN Ret(TRUE, st_gone, reg2, wts, brs,
                      Err("git worktree add failed: ", e.stderr))
        ELSE IF e.fail = "symlink"
             THEN Ret(TRUE, st_doc, reg2, wts \cup {id}, brs \cup {branch},
                      Err("Failed to create .tasks symlink: ", "os error"))
        ELSE Ret(TRUE, st_doc, reg2, wts \cup {id}, brs \cup {branch},
                 Ok(id, branch, base, color))

\* ------------------------------------------------------------- cleanup.rs
\* what running `git log --oneline base..branch` gave: the command could not
\* be started, or it exited with a code and an output
LogOut(k, code, stdout) == [k |-> k, code |-> code, stdout |-> stdout]

LogOuts ==
    { LogOut("spawn_failed", 0, <<>>),
      LogOut("exit", 128, <<>>),
      LogOut("exit", 1, <<"c", "\n">>),
      LogOut("exit", 0, <<>>),
      LogOut("exit", 0, <<" ", "\n">>),
      LogOut("exit", 0, <<"c", "\n">>) }

\* str::trim().is_empty()
TrimIsEmpty(text) == \A i \in DOMAIN text : text[i] \in {" ", "\n"}

\* a check that takes any output of the query for commits, whatever its exit
check_unmerged_any_exit(branch, base, out) ==
    IF base = <<>> THEN FALSE
    ELSE out.k = "exit" /\ ~TrimIsEmpty(out.stdout)

\* check_unmerged: commits of branch that base does not have
check_unmerged(branch, base, out) ==
    IF base = <<>> THEN FALSE
    ELSE IF out.k = "exit" /\ out.code = 0 THEN ~TrimIsEmpty(out.stdout)
    ELSE FALSE

\* the projection of a live record with an active binding
Candidate(t, has_unmerged) ==
    [task_id |-> t.task_id, description |-> t.description, branch |-> t.branch,
     base_branch |-> t.base_branch, status |-> t.wt,
     color_scheme_index |-> t.color_scheme_index,
     is_complete |-> is_complete(t), has_unmerged |-> has_unmerged,
     phase |-> t.phase]

\* has_unmerged of list_cleanup_candidates; logs gives, per task subdirectory,
\* the outcome the query has for the binding of that directory
HasUnmerged(t, logs) ==
    t.branch # <<>> /\ check_unmerged(t.branch, t.base_branch, logs[t.dir])

RECURSIVE FilterCandidatesAnyBinding(_, _)
\* FilterCandidates without the status test: any record with a binding passes
FilterCandidatesAnyBinding(ts, logs) ==
    IF ts = <<>> THEN <<>>
    ELSE (IF ~ts[1].archived /\ ts[1].wt # "none"
          THEN <<Candidate(ts[1], HasUnmerged(ts[1], logs))>> ELSE <<>>)
         \o FilterCandidatesAnyBinding(Tail(ts), logs)

RECURSIVE FilterCandidates(_, _)
\* the loop of list_cleanup_candidates: skip archived, keep status == "active"
FilterCandidates(ts, logs) ==
    IF ts = <<>> THEN <<>>
    ELSE (IF ~ts[1].archived /\ ts[1].wt = "active"
          THEN <<Candidate(ts[1], HasUnmerged(ts[1], logs))>> ELSE <<>>)
         \o FilterCandidates(Tail(ts), logs)

list_cleanup_candidates(exists, st, log, order, logs) ==
    SortByTaskId(FilterCandidates(load_tasks(exists, st, log, order), logs))

\* CleanupResult for one id, from what running the script gave
cleanup_result(id, out) ==
    IF out.exit = "spawn_err"
    THEN [task_id |-> id, success |-> FALSE,
          message |-> <<"Failed to run cleanup script: ", "os error">>]
    ELSE IF out.exit = "ok"
    THEN [task_id |-> id, success |-> TRUE, message |-> <<out.stdout>>]
    ELSE [task_id |-> id, success |-> FALSE, message |-> <<"Failed: ", out.stderr>>]

RECURSIVE execute_cleanup_until_failure(_, _)
\* a batch that stops after the first id whose script fails
execute_cleanup_until_failure(ids, outs) ==
    IF ids = <<>> THEN <<>>
    ELSE <<cleanup_result(ids[1], outs[1])>>
         \o (IF outs[1].exit = "ok"
             THEN execute_cleanup_until_failure(Tail(ids), Tail(outs)) ELSE <<>>)

\* execute_cleanup: one result per id, in the order of the ids
execute_cleanup(ids, outs) == [i \in DOMAIN ids |-> cleanup_result(ids[i], outs[i])]

\* scripts/cleanup-worktree.py <id> [--keep-on-disk] [--remove-branch], when it
\* exits 0: the binding's status becomes "recyclable" or "cleaned", the worktree
\* directory is removed unless kept, the branch is deleted when asked
cleanup_script(d, id, remove_branch, keep_on_disk, out) ==
    IF out.exit # "ok" \/ id \notin DOMAIN d.store \/ ~d.store[id].present
       \/ d.store[id].state.k # "ok"
    THEN d
    ELSE [d EXCEPT
            !.store[id].state.wt = IF keep_on_disk THEN "recyclable" ELSE "cleaned",
            !.worktrees = IF keep_on_disk THEN @ ELSE @ \ {id},
            !.branches = IF remove_branch THEN @ \ {d.store[id].state.branch} ELSE @]

RECURSIVE run_scripts_and_remove_task_dir(_, _, _, _, _)
\* a batch that deletes the task subdirectory of every id whose script exits 0
run_scripts_and_remove_task_dir(d, ids, remove_branch, keep_on_disk, outs) ==
    IF ids = <<>> THEN d
    ELSE LET after == cleanup_script(d, ids[1], remove_branch, keep_on_disk, outs[1])
         IN  run_scripts_and_remove_task_dir(
                IF outs[1].exit = "ok" /\ ids[1] \in DOMAIN after.store
                THEN [after EXCEPT !.store[ids[1]] = NoDir] ELSE after,
                Tail(ids), remove_branch, keep_on_disk, Tail(outs))

RECURSIVE run_scripts(_, _, _, _, _)
\* the disk after the script ran for ids[1], ids[2], ... in turn
run_scripts(d, ids, remove_branch, keep_on_disk, outs) ==
    IF ids = <<>> THEN d
    ELSE run_scripts(cleanup_script(d, ids[1], remove_branch, keep_on_disk, outs[1]),
                     Tail(ids), remove_branch, keep_on_disk, Tail(outs))

\* ------------------------------------------------------------------ app.rs
\* Option<T>: None, or Some(v)
None == [some |-> FALSE, val |-> NoResult]
NoList == [some |-> FALSE, val |-> <<>>]
Some(v) == [some |-> TRUE, val |-> v]

\* launcher::detect_ai_hosts on a machine with two of the hosts on PATH
Hosts == <<"claude", "copilot">>

\* Option<PathBuf>::None; a path is the name of the task subdirectory
NoPath == [some |-> FALSE, val |-> <<>>]

\* App::launch_popup when it is None
NoLaunchPopup == [open |-> FALSE, on_task |-> FALSE, task_id |-> <<>>, task_desc |-> <<>>]

\* App::search_popup when it is None
NoSearchPopup == [open |-> FALSE, input |-> <<>>, results |-> <<>>, cursor |-> 0]

\* App::create_popup when it is None
NoCreatePopup ==
    [open |-> FALSE, step |-> "", description_input |-> <<>>, host_cursor |-> 0,
     pull |-> FALSE, launch_after |-> FALSE, settings_cursor |-> 0,
     preview |-> None, handle |-> FALSE, started_at |-> FALSE, result |-> None]

\* App::cleanup_popup when it is None
NoCleanupPopup ==
    [open |-> FALSE, step |-> "", candidates |-> <<>>, selected |-> {}, cursor |-> 0,
     remove_branch |-> FALSE, keep_on_disk |-> FALSE, settings_cursor |-> 0,
     preview |-> <<>>, handle |-> FALSE, started_at |-> FALSE, results |-> NoList,
     scroll |-> 0, selected_iter |-> <<>>]

\* App::new before any task store is read
NoApp ==
    [repos |-> <<>>, last_refresh |-> 0, create_popup |-> NoCreatePopup,
     cleanup_popup |-> NoCleanupPopup,
     expanded |-> TRUE, tree_cursor |-> 0, detail_mode |-> "Overview",
     detail_scroll |-> 0, cached_artifacts |-> <<>>, cached_task_dir |-> NoPath,
     cached_history_task_dir |-> NoPath, launch_popup |-> NoLaunchPopup,
     search_popup |-> NoSearchPopup, file_reads |-> {},
     tree_rows |-> <<[kind |-> "Repo", ri |-> 0, ti |-> 0]>>]

\* a thread that was never spawned or has been joined; otherwise state is
\* "running", "finished" (value holds what the closure returned) or "panicked"
NoCreateThread ==
    [state |-> "none", description |-> <<>>, pull |-> FALSE, value |-> NoResult]
NoCleanupThread ==
    [state |-> "none", ids |-> <<>>, remove_branch |-> FALSE, keep_on_disk |-> FALSE,
     value |-> <<>>]
NoWorkers == [create |-> NoCreateThread, cleanup |-> NoCleanupThread]

\* the arguments of launcher::launch; none when it is not called
Launch(host, work_dir, task_id, color) ==
    [host |-> host, work_dir |-> work_dir, task_id |-> task_id, color |-> color]
NoLaunch == Launch("", <<>>, <<>>, 0)

\* what a handler leaves: the App, the threads, whether a terminal was
\* launched and with what
St(a, w, l) == [app |-> a, workers |-> w, launched |-> l, launch |-> NoLaunch]

\* the id text "?" of the synthesized cleanup result, which is no TASK_<digits>
UnknownId == <<-1>>

RECURSIVE TrimWsStart(_)
TrimWsStart(text) ==
    IF text # <<>> /\ text[1] = " " THEN TrimWsStart(Tail(text)) ELSE text

RECURSIVE TrimWsEnd(_)
TrimWsEnd(text) ==
    IF text # <<>> /\ text[Len(text)] = " "
    THEN TrimWsEnd(SubSeq(text, 1, Len(text) - 1)) ELSE text

\* str::trim
TrimWs(text) == TrimWsEnd(TrimWsStart(text))

\* Input::handle_event for the keys that are not Esc or Enter: a character key
\* appends at the cursor, which stays at the end; the arrows leave the text
handle_event(text, key) ==
    IF key = "a" THEN Append(text, "a")
    ELSE IF key = "Space" THEN Append(text, " ")
    ELSE text

\* The App of the model watches one repository, repos[0] of the code; the
\* field repos of the model is that repository's task list, so the only repo
\* index is 0 and task index ti is record ti + 1 of repos.
\* App::file_reads is not a field of the code: it collects the per-task files
\* the last handler read, as the directory read and the index of the record it
\* was read for.
TreeLen(a) == Len(a.tree_rows)

\* TreeRow::Repo(ri) and TreeRow::Task(ri, ti)
RepoRow(ri) == [kind |-> "Repo", ri |-> ri, ti |-> 0]
TaskRow(ri, ti) == [kind |-> "Task", ri |-> ri, ti |-> ti]

\* rebuild_tree: the repository row, then one row per task when the
\* repository is expanded; the cursor is clamped to the last row
rebuild_tree(a) ==
    LET rows == <<RepoRow(0)>> \o
                (IF a.expanded THEN [k \in 1..Len(a.repos) |-> TaskRow(0, k - 1)]
                 ELSE <<>>)
    IN  [a EXCEPT !.tree_rows = rows,
                  !.tree_cursor = IF @ >= Len(rows) /\ rows # <<>>
                                  THEN Len(rows) - 1 ELSE @]

\* current_tree_row: tree_rows.get(tree_cursor), a row of kind "None" for None
current_tree_row(a) ==
    IF a.tree_cursor < Len(a.tree_rows) THEN a.tree_rows[a.tree_cursor + 1]
    ELSE [kind |-> "None", ri |-> 0, ti |-> 0]

\* current_loaded_task: the index of the selected record, 0 for None
current_loaded_task(a) ==
    LET row == current_tree_row(a)
    IN  IF row.kind = "Task" /\ row.ri = 0 /\ row.ti < Len(a.repos)
        THEN row.ti + 1 ELSE 0

\* task::load_artifacts: the documents of a task subdirectory; a directory
\* that exists holds one, named after it here
load_artifacts(dir) ==
    IF dir \in DOMAIN store /\ store[dir].present THEN <<dir>> ELSE <<>>

\* an ensure_artifacts that does not test whether the record is archived
ensure_artifacts_any_record(a) ==
    LET cur == current_loaded_task(a)
    IN  IF cur = 0
        THEN [a EXCEPT !.cached_artifacts = <<>>, !.cached_task_dir = NoPath]
        ELSE IF a.cached_task_dir # Some(a.repos[cur].dir)
        THEN [a EXCEPT !.cached_artifacts = load_artifacts(a.repos[cur].dir),
                       !.cached_task_dir = Some(a.repos[cur].dir),
                       !.file_reads = @ \cup {[dir |-> a.repos[cur].dir, for |-> cur]}]
        ELSE a

\* ensure_artifacts
ensure_artifacts(a) ==
    LET cur == current_loaded_task(a)
    IN  IF cur = 0
        THEN [a EXCEPT !.cached_artifacts = <<>>, !.cached_task_dir = NoPath]
        ELSE IF a.repos[cur].archived
        THEN [a EXCEPT !.cached_artifacts = <<>>, !.cached_task_dir = NoPath]
        ELSE IF a.cached_task_dir # Some(a.repos[cur].dir)
        THEN [a EXCEPT !.cached_artifacts = load_artifacts(a.repos[cur].dir),
                       !.cached_task_dir = Some(a.repos[cur].dir),
                       !.file_reads = @ \cup {[dir |-> a.repos[cur].dir, for |-> cur]}]
        ELSE a

\* a refresh that replaces the loaded data and keeps the rows it had
refresh_keeps_tree(a, order) ==
    ensure_artifacts(
       [a EXCEPT !.repos = load_tasks(tasks_dir, store, registry, order),
                 !.last_refresh = @ + 1,
                 !.cached_task_dir = NoPath, !.cached_history_task_dir = NoPath])

\* App::refresh: reload the tasks from disk, stamp the time, rebuild the tree,
\* drop both cached directories and load the artifacts of the selection
refresh(a, order) ==
    ensure_artifacts(
       [rebuild_tree([a EXCEPT !.repos = load_tasks(tasks_dir, store, registry, order),
                               !.last_refresh = @ + 1])
          EXCEPT !.cached_task_dir = NoPath, !.cached_history_task_dir = NoPath])

tree_down(a) ==
    IF a.tree_rows = <<>> THEN a ELSE
    ensure_artifacts([a EXCEPT !.tree_cursor = (@ + 1) % TreeLen(a),
                               !.detail_scroll = 0, !.detail_mode = "Overview"])

tree_up(a) ==
    IF a.tree_rows = <<>> THEN a ELSE
    ensure_artifacts([a EXCEPT !.tree_cursor = IF @ = 0 THEN TreeLen(a) - 1 ELSE @ - 1,
                               !.detail_scroll = 0, !.detail_mode = "Overview"])

\* tree_toggle: expand or collapse on the repository row, nothing on a task row
tree_toggle(a) ==
    IF current_tree_row(a).kind = "Repo"
    THEN rebuild_tree([a EXCEPT !.expanded = ~@]) ELSE a

\* enter_doc_list ('d')
enter_doc_list(a) ==
    LET cur == current_loaded_task(a)
        b == ensure_artifacts(a)
    IN  IF cur = 0 \/ a.repos[cur].archived THEN a
        ELSE IF b.cached_artifacts = <<>> THEN b
        ELSE [b EXCEPT !.detail_mode = "DocList", !.detail_scroll = 0]

\* ensure_history_data: interactions and discoveries of the selected record
ensure_history_data(a) ==
    LET cur == current_loaded_task(a)
    IN  IF cur = 0 THEN [a EXCEPT !.cached_history_task_dir = NoPath]
        ELSE IF a.cached_history_task_dir # Some(a.repos[cur].dir)
        THEN [a EXCEPT !.cached_history_task_dir = Some(a.repos[cur].dir),
                       !.file_reads = @ \cup {[dir |-> a.repos[cur].dir, for |-> cur]}]
        ELSE a

\* enter_history ('h')
enter_history(a) ==
    LET cur == current_loaded_task(a)
    IN  IF cur = 0 \/ a.repos[cur].archived THEN a
        ELSE [ensure_history_data(a) EXCEPT !.detail_mode = "History",
                                            !.detail_scroll = 0]

detail_back(a) ==
    IF a.detail_mode = "DocReader"
    THEN [a EXCEPT !.detail_mode = "DocList", !.detail_scroll = 0]
    ELSE IF a.detail_mode \in {"DocList", "History"}
    THEN [a EXCEPT !.detail_mode = "Overview", !.detail_scroll = 0]
    ELSE a

\* detail_open_doc: reads the cached artifact under the cursor of the list,
\* which is the first one (a directory holds one document here)
detail_open_doc(a) ==
    IF a.detail_mode = "DocList" /\ a.cached_artifacts # <<>>
    THEN [a EXCEPT !.detail_mode = "DocReader", !.detail_scroll = 0,
                   !.file_reads = @ \cup {[dir |-> a.cached_artifacts[1],
                                           for |-> current_loaded_task(a)]}]
    ELSE a

\* ui::detail_pane::draw_doc_list: the preview of the document under the cursor
draw_doc_list(a) ==
    IF a.detail_mode = "DocList" /\ a.cached_artifacts # <<>>
    THEN [a EXCEPT !.file_reads = @ \cup {[dir |-> a.cached_artifacts[1],
                                           for |-> current_loaded_task(a)]}]
    ELSE a

\* open_launch_popup (F2): for the repository row or a live record
open_launch_popup(a) ==
    LET cur == current_loaded_task(a)
    IN  IF a.tree_cursor >= TreeLen(a) THEN a
        ELSE IF cur = 0
        THEN [a EXCEPT !.launch_popup = [NoLaunchPopup EXCEPT !.open = TRUE]]
        ELSE IF a.repos[cur].archived THEN a
        ELSE [a EXCEPT !.launch_popup =
                 [open |-> TRUE, on_task |-> TRUE, task_id |-> a.repos[cur].dir,
                  task_desc |-> a.repos[cur].description]]

close_launch_popup(a) == [a EXCEPT !.launch_popup = NoLaunchPopup]

open_search(a) == [a EXCEPT !.search_popup = [NoSearchPopup EXCEPT !.open = TRUE]]

\* str::contains on texts
Contains(text, q) ==
    \E i \in 0..(Len(text) - Len(q)) : SubSeq(text, i + 1, i + Len(q)) = q

\* the characters of a task id in lower case: "task_" and the digits
IdText(id) ==
    <<"t", "a", "s", "k", "_">>
       \o [i \in DOMAIN id |-> <<"0", "1", "2", "3", "4", "5", "6", "7", "8", "9">>[id[i] + 1]]

\* match_task_fields: the in-memory field that contains the query, "" for None
match_task_fields(t, query) ==
    IF Contains(IdText(t.task_id), query) THEN "task_id"
    ELSE IF Contains(ToLowercase(t.description), query) THEN "description"
    ELSE IF t.wt # "none" /\ Contains(ToLowercase(t.branch), query) THEN "branch"
    ELSE IF t.phase # "none" /\ Contains(<<t.phase>>, query) THEN "phase"
    ELSE ""

\* run_search.  hit tells what the files of the live records hold: the query
\* in state.json, in a document ("md"), or nowhere ("none").
run_search(a, hit) ==
    LET query == ToLowercase(a.search_popup.input)
        source(i) ==
            IF match_task_fields(a.repos[i], query) # ""
            THEN match_task_fields(a.repos[i], query)
            ELSE IF a.repos[i].archived \/ hit = "none" THEN "" ELSE hit
        all == [i \in DOMAIN a.repos |->
                  [task_index |-> i, task_id |-> a.repos[i].task_id,
                   description |-> a.repos[i].description, match_source |-> source(i)]]
        matched(r) == r.match_source # ""
        searched == {i \in DOMAIN a.repos :
                        /\ match_task_fields(a.repos[i], query) = ""
                        /\ ~a.repos[i].archived}
    IN  IF ~a.search_popup.open THEN a
        ELSE IF query = <<>>
        THEN [a EXCEPT !.search_popup.results = <<>>, !.search_popup.cursor = 0]
        ELSE [a EXCEPT !.search_popup.results = SelectSeq(all, matched),
                       !.search_popup.cursor = 0,
                       !.file_reads = @ \cup {[dir |-> a.repos[i].dir, for |-> i] :
                                                 i \in searched}]

\* search_navigate: close the popup and select the record of the chosen hit
search_navigate(a) ==
    IF ~a.search_popup.open \/ a.search_popup.results = <<>> THEN a
    ELSE LET idx == a.search_popup.results[a.search_popup.cursor + 1].task_index
             b == rebuild_tree([a EXCEPT !.search_popup = NoSearchPopup,
                                         !.expanded = TRUE])
             hits == {i \in DOMAIN b.tree_rows : b.tree_rows[i] = TaskRow(0, idx - 1)}
         IN  ensure_artifacts(
                [b EXCEPT !.tree_cursor =
                             IF hits # {} THEN (CHOOSE i \in hits : TRUE) - 1 ELSE @,
                          !.detail_mode = "Overview", !.detail_scroll = 0])

\* search_handle_key
search_handle_key(a, key, hit) ==
    IF ~a.search_popup.open THEN a
    ELSE IF key = "Esc" THEN [a EXCEPT !.search_popup = NoSearchPopup]
    ELSE IF key = "Enter" THEN search_navigate(a)
    ELSE IF key = "Up"
    THEN [a EXCEPT !.search_popup.cursor = IF @ > 0 THEN @ - 1 ELSE @]
    ELSE IF key = "Down"
    THEN [a EXCEPT !.search_popup.cursor =
             IF @ + 1 < Len(a.search_popup.results) THEN @ + 1 ELSE @]
    ELSE run_search([a EXCEPT !.search_popup.input = handle_event(@, key)], hit)

\* open_create_popup: only with the cursor on a repository row
open_create_popup(a, row) ==
    IF row # "repo" THEN a
    ELSE [a EXCEPT !.create_popup =
            [NoCreatePopup EXCEPT !.open = TRUE, !.step = "InputDescription",
                                  !.pull = TRUE, !.launch_after = TRUE]]

\* an Esc that leaves the popup open
keep_create_popup(a) == a

\* self.create_popup = None on Esc in the steps before Executing
discard_create_popup(a) == [a EXCEPT !.create_popup = NoCreatePopup]

\* compute_preview that gives the popup up when the preview fails
compute_preview_closes_on_error(a, git) ==
    LET desc == TrimWs(a.create_popup.description_input)
        pv == preview(git_marker, tasks_dir, store, desc, git)
    IN  IF ~a.create_popup.open THEN a
        ELSE IF pv.ok
        THEN [a EXCEPT !.create_popup.preview = Some(pv),
                       !.create_popup.step = "Confirm"]
        ELSE [a EXCEPT !.create_popup = NoCreatePopup]

\* compute_preview with an error that is shown but not kept
compute_preview_unrecorded(a, git) ==
    LET desc == TrimWs(a.create_popup.description_input)
        pv == preview(git_marker, tasks_dir, store, desc, git)
    IN  IF ~a.create_popup.open THEN a
        ELSE IF pv.ok
        THEN [a EXCEPT !.create_popup.preview = Some(pv),
                       !.create_popup.step = "Confirm"]
        ELSE [a EXCEPT !.create_popup.step = "Done"]

\* compute_preview: Ok goes to Confirm, Err to Done with the error as result
compute_preview(a, git) ==
    LET desc == TrimWs(a.create_popup.description_input)
        pv == preview(git_marker, tasks_dir, store, desc, git)
    IN  IF ~a.create_popup.open THEN a
        ELSE IF pv.ok
        THEN [a EXCEPT !.create_popup.preview = Some(pv),
                       !.create_popup.step = "Confirm"]
        ELSE [a EXCEPT !.create_popup.result = Some(pv),
                       !.create_popup.step = "Done"]

\* a start that spawns the worker and lets go of its JoinHandle
start_create_worktree_detached(a, w) ==
    IF ~a.create_popup.open THEN St(a, w, FALSE)
    ELSE St([a EXCEPT !.create_popup.step = "Executing",
                      !.create_popup.started_at = TRUE],
            [w EXCEPT !.create =
                [state |-> "running",
                 description |-> TrimWs(a.create_popup.description_input),
                 pull |-> a.create_popup.pull, value |-> NoResult]],
            FALSE)

\* start_create_worktree: step Executing, start time, spawn the worker with
\* the trimmed description and the pull setting
start_create_worktree(a, w) ==
    IF ~a.create_popup.open THEN St(a, w, FALSE)
    ELSE St([a EXCEPT !.create_popup.step = "Executing",
                      !.create_popup.started_at = TRUE,
                      !.create_popup.handle = TRUE],
            [w EXCEPT !.create =
                [state |-> "running",
                 description |-> TrimWs(a.create_popup.description_input),
                 pull |-> a.create_popup.pull, value |-> NoResult]],
            FALSE)

\* a poll that does not put the handle of a running worker back
create_popup_check_completion_drops_handle(a, w) ==
    IF ~(a.create_popup.open /\ a.create_popup.step = "Executing") THEN St(a, w, FALSE)
    ELSE IF ~a.create_popup.handle THEN St(a, w, FALSE)
    ELSE IF w.create.state \in {"finished", "panicked"}
    THEN St([a EXCEPT !.create_popup.handle = FALSE,
                      !.create_popup.result =
                          Some(IF w.create.state = "panicked"
                               THEN Err("Thread panicked", "")
                               ELSE w.create.value),
                      !.create_popup.step = "Done"],
            [w EXCEPT !.create = NoCreateThread], FALSE)
    ELSE St([a EXCEPT !.create_popup.handle = FALSE], w, FALSE)

\* create_popup_check_completion: only while Executing; take the handle; when
\* the thread is finished join it, a panic becoming Err("Thread panicked"),
\* and go to Done; otherwise put the handle back
create_popup_check_completion(a, w) ==
    IF ~(a.create_popup.open /\ a.create_popup.step = "Executing") THEN St(a, w, FALSE)
    ELSE IF ~a.create_popup.handle THEN St(a, w, FALSE)
    ELSE IF w.create.state \in {"finished", "panicked"}
    THEN St([a EXCEPT !.create_popup.handle = FALSE,
                      !.create_popup.result =
                          Some(IF w.create.state = "panicked"
                               THEN Err("Thread panicked", "")
                               ELSE w.create.value),
                      !.create_popup.step = "Done"],
            [w EXCEPT !.create = NoCreateThread], FALSE)
    ELSE St(a, w, FALSE)

\* a close that launches whenever launching was asked for, whatever the result
create_popup_launch_and_close_any_result(a, w, order) ==
    LET p == a.create_popup
        closed == refresh([a EXCEPT !.create_popup = NoCreatePopup], order)
    IN  IF ~p.open THEN St(a, w, FALSE)
        ELSE IF p.launch_after
        THEN [St(closed, w, TRUE) EXCEPT
                 !.launch = Launch(Hosts[p.host_cursor + 1], p.result.val.worktree_abs,
                                   p.result.val.task_id,
                                   p.result.val.color_scheme_index)]
        ELSE St(closed, w, FALSE)

\* create_popup_launch_and_close: launch a terminal when asked and the result
\* is Ok, close, always refresh
create_popup_launch_and_close(a, w, order) ==
    LET p == a.create_popup
        launches == p.launch_after /\ p.result.some /\ p.result.val.ok
        closed == refresh([a EXCEPT !.create_popup = NoCreatePopup], order)
    IN  IF ~p.open THEN St(a, w, FALSE)
        ELSE IF launches
        THEN [St(closed, w, TRUE) EXCEPT
                 !.launch = Launch(Hosts[p.host_cursor + 1], p.result.val.worktree_abs,
                                   p.result.val.task_id,
                                   p.result.val.color_scheme_index)]
        ELSE St(closed, w, FALSE)

\* close_create_popup: close, refresh only when the result is Ok
close_create_popup(a, order) ==
    LET should_refresh ==
            /\ a.create_popup.open
            /\ a.create_popup.result.some
            /\ a.create_popup.result.val.ok
        closed == [a EXCEPT !.create_popup = NoCreatePopup]
    IN  IF should_refresh THEN refresh(closed, order) ELSE closed

\* create_popup_handle_key.  env.git is what git branch --show-current does
\* during a preview, env.order the order read_dir yields during a refresh.
create_popup_handle_key(a, w, key, env) ==
    LET p == a.create_popup
        same == St(a, w, FALSE)
        up(cursor) == IF cursor > 0 THEN cursor - 1 ELSE cursor
    IN  IF ~p.open THEN same
        ELSE IF p.step = "InputDescription"
        THEN IF key = "Esc" THEN St(discard_create_popup(a), w, FALSE)
             ELSE IF key = "Enter"
             THEN IF TrimWs(p.description_input) # <<>>
                  THEN St([a EXCEPT !.create_popup.step = "SelectHost"], w, FALSE)
                  ELSE same
             ELSE St([a EXCEPT !.create_popup.description_input =
                                  handle_event(@, key)], w, FALSE)
        ELSE IF p.step = "SelectHost"
        THEN IF key = "Esc" THEN St(discard_create_popup(a), w, FALSE)
             ELSE IF key = "Up"
             THEN St([a EXCEPT !.create_popup.host_cursor = up(@)], w, FALSE)
             ELSE IF key = "Down"
             THEN St([a EXCEPT !.create_popup.host_cursor =
                                  IF @ + 1 < Len(Hosts) THEN @ + 1 ELSE @], w, FALSE)
             ELSE IF key = "Enter"
             THEN St([a EXCEPT !.create_popup.step = "ToggleSettings"], w, FALSE)
             ELSE same
        ELSE IF p.step = "ToggleSettings"
        THEN IF key = "Esc" THEN St(discard_create_popup(a), w, FALSE)
             ELSE IF key = "Up"
             THEN St([a EXCEPT !.create_popup.settings_cursor = up(@)], w, FALSE)
             ELSE IF key = "Down"
             THEN St([a EXCEPT !.create_popup.settings_cursor =
                                  IF @ < 1 THEN @ + 1 ELSE @], w, FALSE)
             ELSE IF key = "Space"
             THEN IF p.settings_cursor = 0
                  THEN St([a EXCEPT !.create_popup.pull = ~@], w, FALSE)
                  ELSE St([a EXCEPT !.create_popup.launch_after = ~@], w, FALSE)
             ELSE IF key = "Enter" THEN St(compute_preview(a, env.git), w, FALSE)
             ELSE same
        ELSE IF p.step = "Confirm"
        THEN IF key = "Esc" THEN St(discard_create_popup(a), w, FALSE)
             ELSE IF key = "Enter" THEN start_create_worktree(a, w)
             ELSE same
        ELSE IF p.step = "Executing" THEN same
        ELSE IF key = "Esc" THEN St(close_create_popup(a, env.order), w, FALSE)
        ELSE IF key = "Enter" THEN create_popup_launch_and_close(a, w, env.order)
        ELSE same

\* the largest u16, where CleanupPopup::scroll saturates
U16Max == 65535

\* the order in which a HashSet holding S yields its elements: arbitrary, fixed
\* by the last change of the set (rank lists the possible elements), and the
\* same for every iteration until the set changes again
IterOrder(S, rank) == SelectSeq(rank, LAMBDA i : i \in S)

\* candidates.get(i) for the 0-based indices in the order the set yields them
SelectedCandidates(cands, perm) ==
    LET hit == SelectSeq(perm, LAMBDA i : i < Len(cands))
    IN  [k \in DOMAIN hit |-> cands[hit[k] + 1]]

\* the commands of one action: worktree removal, branch deletion, state note
cleanup_commands(c, remove_branch, keep_on_disk) ==
    (IF keep_on_disk THEN <<>> ELSE <<"git worktree remove">>)
    \o (IF remove_branch /\ c.branch # <<>> THEN <<"git branch -d">> ELSE <<>>)
    \o (IF keep_on_disk THEN <<"status recyclable">> ELSE <<"status cleaned">>)

\* a warning: its kind and what format! puts into it
Warning(kind, branch, base, phase) ==
    [kind |-> kind, branch |-> branch, base |-> base, phase |-> phase]

\* warnings that leave out the one for unmerged commits
cleanup_warnings_incomplete_only(c) ==
    IF ~c.is_complete
    THEN <<Warning("Workflow not complete", <<>>, <<>>,
                   IF c.phase = "none" THEN "unknown" ELSE c.phase)>>
    ELSE <<>>

\* the warnings of one action: unmerged commits, then unfinished workflow
\* with c.phase.as_deref().unwrap_or("unknown")
cleanup_warnings(c) ==
    (IF c.has_unmerged
     THEN <<Warning("has unmerged commits", c.branch, c.base_branch, "")>> ELSE <<>>)
    \o (IF ~c.is_complete
        THEN <<Warning("Workflow not complete", <<>>, <<>>,
                       IF c.phase = "none" THEN "unknown" ELSE c.phase)>>
        ELSE <<>>)

\* a preview that lists the branch deletion whether or not a branch is named
preview_cleanup_any_branch(cands, remove_branch, keep_on_disk) ==
    [k \in DOMAIN cands |->
        [task_id |-> cands[k].task_id,
         commands |->
            cleanup_commands([cands[k] EXCEPT !.branch = <<"b">>], remove_branch,
                             keep_on_disk),
         warnings |-> cleanup_warnings(cands[k])]]

\* a preview that lists the candidates in id order, not in the order given
preview_cleanup_in_id_order(cands, remove_branch, keep_on_disk) ==
    LET sorted == SortByTaskId(cands)
    IN  [k \in DOMAIN sorted |->
           [task_id |-> sorted[k].task_id,
            commands |-> cleanup_commands(sorted[k], remove_branch, keep_on_disk),
            warnings |-> cleanup_warnings(sorted[k])]]

\* cleanup::preview_cleanup: per candidate, in the order given, its id, the
\* commands and the warnings
preview_cleanup(cands, remove_branch, keep_on_disk) ==
    [k \in DOMAIN cands |->
        [task_id |-> cands[k].task_id,
         commands |-> cleanup_commands(cands[k], remove_branch, keep_on_disk),
         warnings |-> cleanup_warnings(cands[k])]]

\* open_cleanup_popup: on a repository or task row; the candidates are listed
\* and the complete ones preselected
open_cleanup_popup(a, row, order, logs, rank) ==
    LET cands == list_cleanup_candidates(tasks_dir, store, registry, order, logs)
        selected == {i - 1 : i \in {j \in DOMAIN cands : cands[j].is_complete}}
    IN  IF row = "none" THEN a
        ELSE [a EXCEPT !.cleanup_popup =
                [NoCleanupPopup EXCEPT
                    !.open = TRUE, !.step = "SelectWorktrees",
                    !.candidates = cands,
                    !.selected = selected,
                    !.selected_iter = IterOrder(selected, rank)]]

\* compute_cleanup_preview
compute_cleanup_preview(a) ==
    IF ~a.cleanup_popup.open THEN a
    ELSE [a EXCEPT !.cleanup_popup.preview =
                      preview_cleanup(
                         SelectedCandidates(a.cleanup_popup.candidates,
                                            a.cleanup_popup.selected_iter),
                         a.cleanup_popup.remove_branch, a.cleanup_popup.keep_on_disk),
                   !.cleanup_popup.scroll = 0,
                   !.cleanup_popup.step = "Preview"]

\* a start that hands the worker the selected ids in the order of the
\* candidate list instead of the order the selection yields them
start_cleanup_in_list_order(a, w) ==
    LET p == a.cleanup_popup
        sel == SelectSeq([i \in 1..Len(p.candidates) |-> i - 1],
                         LAMBDA i : i \in p.selected)
    IN  IF ~p.open THEN St(a, w, FALSE)
        ELSE St([a EXCEPT !.cleanup_popup.step = "Executing",
                          !.cleanup_popup.started_at = TRUE,
                          !.cleanup_popup.handle = TRUE],
                [w EXCEPT !.cleanup =
                    [state |-> "running",
                     ids |-> [k \in DOMAIN sel |-> p.candidates[sel[k] + 1].task_id],
                     remove_branch |-> p.remove_branch,
                     keep_on_disk |-> p.keep_on_disk,
                     value |-> <<>>]],
                FALSE)

\* start_cleanup: step Executing, start time, spawn the worker with the ids of
\* the selected candidates and the two settings
start_cleanup(a, w) ==
    LET sel == SelectedCandidates(a.cleanup_popup.candidates,
                                  a.cleanup_popup.selected_iter)
    IN  IF ~a.cleanup_popup.open THEN St(a, w, FALSE)
        ELSE St([a EXCEPT !.cleanup_popup.step = "Executing",
                          !.cleanup_popup.started_at = TRUE,
                          !.cleanup_popup.handle = TRUE],
                [w EXCEPT !.cleanup =
                    [state |-> "running",
                     ids |-> [k \in DOMAIN sel |-> sel[k].task_id],
                     remove_branch |-> a.cleanup_popup.remove_branch,
                     keep_on_disk |-> a.cleanup_popup.keep_on_disk,
                     value |-> <<>>]],
                FALSE)

\* a join that gives a panicked worker an empty result list
join_cleanup_empty(t) ==
    IF t.state = "panicked" THEN <<>> ELSE t.value

\* handle.join().unwrap_or_else(..): the returned list, or for a panicked
\* worker one failure result with id "?" and message "Thread panicked"
join_cleanup(t) ==
    IF t.state = "panicked"
    THEN <<[task_id |-> UnknownId, success |-> FALSE,
            message |-> <<"Thread panicked">>]>>
    ELSE t.value

\* a poll that joins the worker without asking whether it has finished
cleanup_popup_check_completion_joins(a, w) ==
    IF ~(a.cleanup_popup.open /\ a.cleanup_popup.step = "Executing")
    THEN St(a, w, FALSE)
    ELSE IF ~a.cleanup_popup.handle THEN St(a, w, FALSE)
    ELSE St([a EXCEPT !.cleanup_popup.handle = FALSE,
                      !.cleanup_popup.results = Some(join_cleanup(w.cleanup)),
                      !.cleanup_popup.step = "Done",
                      !.cleanup_popup.scroll = 0],
            [w EXCEPT !.cleanup = NoCleanupThread], FALSE)

\* a poll that clears the start time when it collects the results
cleanup_popup_check_completion_forgets_start(a, w) ==
    IF ~(a.cleanup_popup.open /\ a.cleanup_popup.step = "Executing")
    THEN St(a, w, FALSE)
    ELSE IF ~a.cleanup_popup.handle THEN St(a, w, FALSE)
    ELSE IF w.cleanup.state \in {"finished", "panicked"}
    THEN St([a EXCEPT !.cleanup_popup.handle = FALSE,
                      !.cleanup_popup.started_at = FALSE,
                      !.cleanup_popup.results = Some(join_cleanup(w.cleanup)),
                      !.cleanup_popup.step = "Done",
                      !.cleanup_popup.scroll = 0],
            [w EXCEPT !.cleanup = NoCleanupThread], FALSE)
    ELSE St(a, w, FALSE)

\* cleanup_popup_check_completion
cleanup_popup_check_completion(a, w) ==
    IF ~(a.cleanup_popup.open /\ a.cleanup_popup.step = "Executing")
    THEN St(a, w, FALSE)
    ELSE IF ~a.cleanup_popup.handle THEN St(a, w, FALSE)
    ELSE IF w.cleanup.state \in {"finished", "panicked"}
    THEN St([a EXCEPT !.cleanup_popup.handle = FALSE,
                      !.cleanup_popup.results = Some(join_cleanup(w.cleanup)),
                      !.cleanup_popup.step = "Done",
                      !.cleanup_popup.scroll = 0],
            [w EXCEPT !.cleanup = NoCleanupThread], FALSE)
    ELSE St(a, w, FALSE)

\* a close that offers the selection again instead of closing
close_cleanup_popup_back_to_selection(a, order) ==
    LET should_refresh == a.cleanup_popup.open /\ a.cleanup_popup.results.some
        again == [a EXCEPT !.cleanup_popup.step = "SelectWorktrees"]
    IN  IF should_refresh THEN refresh(again, order) ELSE again

\* close_cleanup_popup: close, refresh when there are results
close_cleanup_popup(a, order) ==
    LET should_refresh == a.cleanup_popup.open /\ a.cleanup_popup.results.some
        closed == [a EXCEPT !.cleanup_popup = NoCleanupPopup]
    IN  IF should_refresh THEN refresh(closed, order) ELSE closed

\* cleanup_popup_handle_key.  env.rank fixes the order in which the HashSet of
\* selected indices is iterated, env.order the read_dir order of a refresh.
cleanup_popup_handle_key(a, w, key, env) ==
    LET p == a.cleanup_popup
        same == St(a, w, FALSE)
        up(n) == IF n > 0 THEN n - 1 ELSE n
        down(n) == IF n < U16Max THEN n + 1 ELSE n
        discard == St([a EXCEPT !.cleanup_popup = NoCleanupPopup], w, FALSE)
        toggled == IF p.cursor \in p.selected THEN p.selected \ {p.cursor}
                   ELSE p.selected \cup {p.cursor}
        all_or_none == IF Cardinality(p.selected) = Len(p.candidates) THEN {}
                       ELSE 0..(Len(p.candidates) - 1)
    IN  IF ~p.open THEN same
        ELSE IF p.step = "SelectWorktrees"
        THEN IF key = "Esc" THEN discard
             ELSE IF key = "Up"
             THEN St([a EXCEPT !.cleanup_popup.cursor = up(@)], w, FALSE)
             ELSE IF key = "Down"
             THEN St([a EXCEPT !.cleanup_popup.cursor =
                                  IF @ + 1 < Len(p.candidates) THEN @ + 1 ELSE @],
                     w, FALSE)
             ELSE IF key = "Space"
             THEN St([a EXCEPT !.cleanup_popup.selected = toggled,
                               !.cleanup_popup.selected_iter =
                                  IterOrder(toggled, env.rank)], w, FALSE)
             ELSE IF key = "a"
             THEN St([a EXCEPT !.cleanup_popup.selected = all_or_none,
                               !.cleanup_popup.selected_iter =
                                  IterOrder(all_or_none, env.rank)], w, FALSE)
             ELSE IF key = "Enter"
             THEN IF p.selected # {}
                  THEN St([a EXCEPT !.cleanup_popup.step = "Settings"], w, FALSE)
                  ELSE same
             ELSE same
        ELSE IF p.step = "Settings"
        THEN IF key = "Esc" THEN discard
             ELSE IF key = "Up"
             THEN St([a EXCEPT !.cleanup_popup.settings_cursor = up(@)], w, FALSE)
             ELSE IF key = "Down"
             THEN St([a EXCEPT !.cleanup_popup.settings_cursor =
                                  IF @ < 1 THEN @ + 1 ELSE @], w, FALSE)
             ELSE IF key = "Space"
             THEN IF p.settings_cursor = 0
                  THEN St([a EXCEPT !.cleanup_popup.remove_branch = ~@], w, FALSE)
                  ELSE St([a EXCEPT !.cleanup_popup.keep_on_disk = ~@], w, FALSE)
             ELSE IF key = "Enter"
             THEN St(compute_cleanup_preview(a), w, FALSE)
             ELSE same
        ELSE IF p.step = "Preview"
        THEN IF key = "Esc" THEN discard
             ELSE IF key = "Up"
             THEN St([a EXCEPT !.cleanup_popup.scroll = up(@)], w, FALSE)
             ELSE IF key = "Down"
             THEN St([a EXCEPT !.cleanup_popup.scroll = down(@)], w, FALSE)
             ELSE IF key = "Enter" THEN start_cleanup(a, w)
             ELSE same
        ELSE IF p.step = "Executing" THEN same
        ELSE IF key \in {"Esc", "Enter"}
             THEN St(close_cleanup_popup(a, env.order), w, FALSE)
        ELSE IF key = "Up"
             THEN St([a EXCEPT !.cleanup_popup.scroll = up(@)], w, FALSE)
        ELSE IF key = "Down"
             THEN St([a EXCEPT !.cleanup_popup.scroll = down(@)], w, FALSE)
        ELSE same

\* ---------------------------------------- the task stores of the load checks
\* the orders in which read_dir may yield the subdirectories present
Orders(st) ==
    LET P == {d \in DOMAIN st : st[d].present}
    IN  {o \in [1..Cardinality(P) -> P] : \A i, j \in DOMAIN o : i # j => o[i] # o[j]}

AllPhases == {PHASE_ORDER[i] : i \in DOMAIN PHASE_ORDER}

\* a state document as external tooling leaves it
ToolDoc(id, wt, phases) ==
    Doc(id, <<"d">>, IF phases = {} THEN "architect" ELSE "technical_writer", phases,
        1, wt, IF wt = "none" THEN <<>> ELSE <<"b">>,
        IF wt = "none" THEN <<>> ELSE <<"main">>, 0)

\* a legacy metadata.json
LegacyDoc(id) == [DefaultDoc(id) EXCEPT !.description = <<"m">>, !.branch = <<"m", "b">>]

\* what a TASK_<n> subdirectory may hold in the load checks: documents that
\* are missing, malformed, legacy-only, or carry their own or another id
DirChoices(d) ==
    { NoDir,
      Dir(BadDoc, LegacyDoc(d)),
      Dir(NoDoc, LegacyDoc(d)),
      Dir(NoDoc, BadDoc),
      Dir(ToolDoc(d, "active", {}), NoDoc),
      Dir(ToolDoc(FormatId(1), "active", {}), NoDoc) }

\* what it may hold in the candidate checks: every state of the binding
BindingChoices(d) ==
    { NoDir,
      Dir(NoDoc, LegacyDoc(d)),
      Dir(ToolDoc(d, "none", {}), NoDoc),
      Dir(ToolDoc(d, "active", {}), NoDoc),
      Dir(ToolDoc(d, "cleaned", AllPhases), NoDoc),
      Dir(ToolDoc(d, "recyclable", AllPhases), NoDoc) }

LineChoices == {BadLine} \cup {RegLine(FormatId(n), <<"r">>, <<"r", "b">>) : n \in 1..MaxNum}

RegistryChoices == UNION {[1..n -> LineChoices] : n \in 0..MaxReg}

\* the query fails for every binding, or finds a commit for every binding
UniformLogs ==
    {[d \in DirNames |-> o] : o \in {LogOut("exit", 128, <<>>),
                                     LogOut("exit", 0, <<"c", "\n">>)}}

NoArgs ==
    [description |-> <<>>, pull |-> FALSE, fail |-> "none", append_ok |-> TRUE,
     stderr |-> "", git |-> "ok", ids |-> <<>>, remove_branch |-> FALSE,
     keep_on_disk |-> FALSE, outs |-> <<>>, key |-> "", launched |-> FALSE,
     cands |-> <<>>, recs |-> <<>>, logs |-> <<>>, launch |-> NoLaunch,
     read_ok |-> TRUE]

NoResults ==
    /\ op = "init"
    /\ args = NoArgs
    /\ tasks = <<>>
    /\ candidates = <<>>
    /\ next_id = <<>>
    /\ created = NoResult
    /\ previewed = NoResult
    /\ cleaned = <<>>
    /\ actions = <<>>
    /\ returned_text = <<>>
    /\ loaded_registry = << >>
    /\ nops = 0
    /\ app = NoApp
    /\ workers = NoWorkers

InitLoad ==
    /\ git_marker = "dir"
    /\ worktrees = {}
    /\ branches = {}
    /\ tasks_dir \in BOOLEAN
    /\ store \in [DirNames -> UNION {DirChoices(d) : d \in DirNames}]
    /\ \A d \in DirNames : store[d] \in DirChoices(d)
    /\ registry \in RegistryChoices
    /\ ~tasks_dir => (\A d \in DirNames : ~store[d].present) /\ registry = <<>>
    /\ NoResults

LoadTasks ==
    /\ op = "init"
    /\ \E order \in Orders(store) :
          tasks' = load_tasks(tasks_dir, store, registry, order)
    /\ op' = "load_tasks"
    /\ UNCHANGED <<disk, args, candidates, next_id, created, previewed, cleaned, actions, returned_text, loaded_registry, nops, ui>>

GetNextTaskId ==
    /\ op = "init"
    /\ next_id' = get_next_task_id(tasks_dir, store)
    /\ op' = "get_next_task_id"
    /\ UNCHANGED <<disk, args, tasks, candidates, created, previewed, cleaned, actions, returned_text, loaded_registry, nops, ui>>

NextLoad == LoadTasks \/ GetNextTaskId

SpecLoad == InitLoad /\ [][NextLoad]_vars

\* ------------------------------------------------- loading: the registry log
\* lines of a log: unparseable, blank, or an entry for an id; an id can have
\* two different entries
LogLines ==
    {BadLine, BlankLine}
        \cup {RegLine(FormatId(n), desc, <<"r", "b">>) :
                 n \in 1..MaxNum, desc \in {<<"r">>, <<"s">>}}

\* largest number of lines of a log a load_registry check starts from
MaxLines == 3

\* a task store with a log of up to MaxLines lines, or no task store and
\* hence no log file; a log nothing was appended to is the empty sequence
InitReg ==
    /\ git_marker = "dir"
    /\ worktrees = {}
    /\ branches = {}
    /\ tasks_dir \in BOOLEAN
    /\ store = [d \in DirNames |-> NoDir]
    /\ registry \in UNION {[1..n -> LogLines] : n \in 0..MaxLines}
    /\ ~tasks_dir => registry = <<>>
    /\ NoResults

LoadRegistry ==
    /\ op = "init"
    /\ \E read_ok \in BOOLEAN :
          /\ ~tasks_dir => ~read_ok
          /\ loaded_registry' = load_registry_file(read_ok, registry)
          /\ args' = [NoArgs EXCEPT !.read_ok = read_ok]
    /\ op' = "load_registry"
    /\ UNCHANGED <<disk, tasks, candidates, next_id, created, previewed, cleaned, actions, returned_text, nops, ui>>

NextReg == LoadRegistry

SpecReg == InitReg /\ [][NextReg]_vars

InitCand ==
    /\ git_marker = "dir"
    /\ worktrees = {}
    /\ branches = {}
    /\ tasks_dir = TRUE
    /\ store \in [DirNames -> UNION {BindingChoices(d) : d \in DirNames}]
    /\ \A d \in DirNames : store[d] \in BindingChoices(d)
    /\ registry \in RegistryChoices
    /\ NoResults

ListCleanupCandidates ==
    /\ op = "init"
    /\ \E order \in Orders(store), logs \in UniformLogs :
          candidates' = list_cleanup_candidates(tasks_dir, store, registry, order, logs)
    /\ op' = "list_cleanup_candidates"
    /\ UNCHANGED <<disk, args, tasks, next_id, created, previewed, cleaned, actions, returned_text, loaded_registry, nops, ui>>

NextCand == ListCleanupCandidates

SpecCand == InitCand /\ [][NextCand]_vars

\* ------------------------------------------- candidates: unmerged commits
\* an active binding with both names, without a base, without a branch
MergeChoices(d) ==
    IF ParseNum(d) > 2 THEN {NoDir}
    ELSE { NoDir,
           Dir(ToolDoc(d, "active", {}), NoDoc),
           Dir([ToolDoc(d, "active", {}) EXCEPT !.base_branch = <<>>], NoDoc),
           Dir([ToolDoc(d, "active", {}) EXCEPT !.branch = <<>>], NoDoc) }

\* the outcome of the query per directory, free for the first two
MergeLogs ==
    {l \in [DirNames -> LogOuts] :
        \A d \in DirNames : ParseNum(d) > 2 => l[d] = LogOut("exit", 0, <<>>)}

InitMerge ==
    /\ git_marker = "dir"
    /\ worktrees = {}
    /\ branches = {}
    /\ tasks_dir = TRUE
    /\ store \in [DirNames -> UNION {MergeChoices(d) : d \in DirNames}]
    /\ \A d \in DirNames : store[d] \in MergeChoices(d)
    /\ registry = <<>>
    /\ NoResults

ListCandidatesWithLogs ==
    /\ op = "init"
    /\ \E order \in Orders(store), logs \in MergeLogs :
          /\ candidates' = list_cleanup_candidates(tasks_dir, store, registry, order, logs)
          /\ args' = [NoArgs EXCEPT !.logs = logs]
    /\ op' = "list_cleanup_candidates"
    /\ UNCHANGED <<disk, tasks, next_id, created, previewed, cleaned, actions, returned_text, loaded_registry, nops, ui>>

NextMerge == ListCandidatesWithLogs

SpecMerge == InitMerge /\ [][NextMerge]_vars

\* --------------------------------------------- loading: ids past three digits
\* the directory numbers around the point where the id gets a fourth digit
WideNums == 998..1000

\* the smallest of them: where the kept part of the list starts
WideFrom == CHOOSE m \in WideNums : \A x \in WideNums : m <= x

WideDirNames == {FormatId(n) : n \in WideNums}

\* The records of load_tasks' result whose number is at least `from`, in the
\* order they have in the result, for a store whose documents carry ids from
\* `from` on: steps 1 to 5 with the gap loop started at `from`.  The sort is
\* stable and compares two records only with each other, so the records left
\* out (the placeholders 1..from-1) do not change the order of those kept.
load_tasks_tail(from, st, log, order) ==
    LET loaded == ScanDirs(st, order)
        reg == load_registry(log)
        max_num == SetMax({SetMax(OnDiskNums(st)), MaxFromRegistry(reg)})
        ids == {loaded[i].task_id : i \in DOMAIN loaded}
    IN  SortByTaskId(loaded \o FillGaps(from, max_num, ids, reg))

\* a task store whose subdirectories are TASK_998, TASK_999 and TASK_1000, each
\* missing, broken, legacy-only or holding its own state document
InitWide ==
    /\ git_marker = "dir"
    /\ worktrees = {}
    /\ branches = {}
    /\ tasks_dir = TRUE
    /\ store \in [WideDirNames -> UNION {DirChoices(d) : d \in WideDirNames}]
    /\ \A d \in WideDirNames :
          store[d] \in DirChoices(d) \ {Dir(ToolDoc(FormatId(1), "active", {}), NoDoc)}
    /\ registry = <<>>
    /\ NoResults

LoadTasksTail ==
    /\ op = "init"
    /\ \E order \in Orders(store) :
          tasks' = load_tasks_tail(WideFrom, store, registry, order)
    /\ op' = "load_tasks"
    /\ UNCHANGED <<disk, args, candidates, next_id, created, previewed, cleaned, actions, returned_text, loaded_registry, nops, ui>>

NextWide == LoadTasksTail \/ GetNextTaskId

SpecWide == InitWide /\ [][NextWide]_vars

\* ------------------------------------------------- provisioning: branch names
\* characters of a free description
MaxText == 3

\* a unit written n times
Repeat(unit, n) == [i \in 1..(n * Len(unit)) |-> unit[((i - 1) % Len(unit)) + 1]]

\* every short text
ShortTexts == UNION {[1..n -> Chars] : n \in 0..MaxText}

\* the descriptions of the unit tests and one that slugs to the fallback's slug
TestTexts ==
    { <<"A", "d", "d", " ", "u", "s", "e", "r", " ", "a", "u", "t", "h", " ",
        "w", "i", "t", "h", " ", "J", "W", "T", "!">>,
      <<"m", "u", "l", "t", "i", "-", "-", "-", "d", "a", "s", "h", "e", "s">>,
      <<"J", "I", "R", "A", "-", "1", "2", "3", ":", " ", "F", "i", "x">>,
      <<"\t", "a", "\n", "_", " ", "-", "b", "\t">>,
      <<"N", "e", "w", " ", "T", "a", "s", "k">> }

\* descriptions whose slug has about SlugMax characters, so that the cut falls
\* on a letter or on a dash
LongTexts ==
    {head \o Repeat(unit, n) :
        head \in {<<>>, <<"a">>, <<"!">>, <<"B", "1">>},
        unit \in {<<"a">>, <<"a", " ">>, <<"1", "_", "-">>, <<"I_dot", "-">>},
        n \in (SlugMax \div 2 - 1) .. (SlugMax \div 2 + 2) \cup {SlugMax, SlugMax + 1}}

TextInputs == ShortTexts \cup TestTexts \cup LongTexts

InitSlug ==
    /\ git_marker = "dir"
    /\ tasks_dir = FALSE
    /\ store = [d \in DirNames |-> NoDir]
    /\ registry = <<>>
    /\ worktrees = {}
    /\ branches = {}
    /\ NoResults

Slugify ==
    /\ op = "init"
    /\ \E text \in TextInputs :
          /\ returned_text' = slugify(text)
          /\ UNCHANGED loaded_registry
          /\ args' = [NoArgs EXCEPT !.description = text]
    /\ op' = "slugify"
    /\ UNCHANGED <<disk, tasks, candidates, next_id, created, previewed, cleaned, actions,
                   nops, ui>>

GenerateBranchName ==
    /\ op = "init"
    /\ \E description \in TextInputs :
          /\ returned_text' = generate_branch_name(description)
          /\ UNCHANGED loaded_registry
          /\ args' = [NoArgs EXCEPT !.description = description]
    /\ op' = "generate_branch_name"
    /\ UNCHANGED <<disk, tasks, candidates, next_id, created, previewed, cleaned, actions,
                   nops, ui>>

\* the same call made once more
GenerateBranchNameAgain ==
    /\ op = "generate_branch_name"
    /\ returned_text' = generate_branch_name(args.description)
    /\ UNCHANGED loaded_registry
    /\ op' = "generate_branch_name_again"
    /\ UNCHANGED <<disk, args, tasks, candidates, next_id, created, previewed, cleaned,
                   actions, nops, ui>>

NextSlug == Slugify \/ GenerateBranchName \/ GenerateBranchNameAgain

SpecSlug == InitSlug /\ [][NextSlug]_vars

\* ------------------------------------------- provisioning: create, preview
Descriptions == {<<"B", " ", "a", "!">>, <<"!">>}

Stderrs == {"fatal: e1", "fatal: e2"}

\* what the external commands and the file system do during one create call
Envs(pull, td) ==
    {e \in [fail : FailPoints, append_ok : BOOLEAN, stderr : Stderrs] :
        /\ e.fail \in {"fetch_spawn", "fetch", "pull_spawn", "pull"} => pull
        /\ e.fail = "mk_tasks" => ~td
        /\ e.stderr # "fatal: e1" => e.fail \in {"none", "fetch", "pull", "add_nonzero"}
        /\ ~e.append_ok =>
              e.fail \in {"none", "mk_wt_base", "add_spawn", "add_nonzero", "symlink"}}

InitOps ==
    /\ git_marker \in {"dir", "file", "none"}
    /\ tasks_dir \in BOOLEAN
    /\ store = [d \in DirNames |-> NoDir]
    /\ registry = <<>>
    /\ worktrees = {}
    /\ branches = {}
    /\ NoResults

CreateWorktree ==
    /\ nops < MaxOps
    /\ ParseNum(get_next_task_id(tasks_dir, store)) <= MaxNum
    /\ \E desc \in Descriptions, pull \in BOOLEAN :
       \E e \in Envs(pull, tasks_dir) :
          LET r == create_worktree(git_marker, tasks_dir, store, registry,
                                   worktrees, branches, desc, pull, e)
          IN  /\ tasks_dir' = r.tasks_dir
              /\ store' = r.store
              /\ registry' = r.registry
              /\ worktrees' = r.worktrees
              /\ branches' = r.branches
              /\ created' = r.result
              /\ args' = [NoArgs EXCEPT !.description = desc, !.pull = pull,
                                        !.fail = e.fail, !.append_ok = e.append_ok,
                                        !.stderr = e.stderr]
    /\ op' = "create_worktree"
    /\ nops' = nops + 1
    /\ UNCHANGED <<git_marker, tasks, candidates, next_id, previewed, cleaned, actions, returned_text, loaded_registry, ui>>

Preview ==
    /\ nops < MaxOps
    /\ \E desc \in Descriptions, git \in {"ok", "empty", "nonzero", "spawn_err"} :
          /\ previewed' = preview(git_marker, tasks_dir, store, desc, git)
          /\ args' = [NoArgs EXCEPT !.description = desc, !.git = git]
    /\ op' = "preview"
    /\ nops' = nops + 1
    /\ UNCHANGED <<disk, tasks, candidates, next_id, created, cleaned, actions, returned_text, loaded_registry, ui>>

\* a task subdirectory is deleted by hand or by other tooling
ExtDeleteTaskDir ==
    /\ nops < MaxOps
    /\ \E d \in DirNames :
          /\ store[d].present
          /\ store' = [store EXCEPT ![d] = NoDir]
    /\ op' = "delete"
    /\ args' = NoArgs
    /\ nops' = nops + 1
    /\ UNCHANGED <<git_marker, tasks_dir, registry, worktrees, branches, results, ui>>

NextOps == CreateWorktree \/ Preview \/ ExtDeleteTaskDir

SpecOps == InitOps /\ [][NextOps]_vars

\* ------------------------------------- provisioning: ids around the palette
\* the directory numbers around the palette size, where the color index wraps
PaletteNums == (PaletteSize - 2)..(PaletteSize + MaxNum)

PaletteDirNames == {FormatId(n) : n \in PaletteNums}

\* a main repository whose task store holds at most one of these
\* subdirectories, left behind without a state document
InitPalette ==
    /\ git_marker = "dir"
    /\ tasks_dir = TRUE
    /\ store \in [PaletteDirNames -> {NoDir, Dir(NoDoc, NoDoc)}]
    /\ Cardinality({d \in PaletteDirNames : store[d].present}) <= 1
    /\ registry = <<>>
    /\ worktrees = {}
    /\ branches = {}
    /\ NoResults

\* create_worktree in such a repository
CreateNumberedWorktree ==
    /\ nops < MaxOps
    /\ get_next_task_id(tasks_dir, store) \in PaletteDirNames
    /\ \E desc \in Descriptions, pull \in BOOLEAN :
       \E e \in Envs(pull, tasks_dir) :
          LET r == create_worktree(git_marker, tasks_dir, store, registry,
                                   worktrees, branches, desc, pull, e)
          IN  /\ tasks_dir' = r.tasks_dir
              /\ store' = r.store
              /\ registry' = r.registry
              /\ worktrees' = r.worktrees
              /\ branches' = r.branches
              /\ created' = r.result
              /\ args' = [NoArgs EXCEPT !.description = desc, !.pull = pull,
                                        !.fail = e.fail, !.append_ok = e.append_ok,
                                        !.stderr = e.stderr]
    /\ op' = "create_worktree"
    /\ nops' = nops + 1
    /\ UNCHANGED <<git_marker, tasks, candidates, next_id, previewed, cleaned, actions, returned_text, loaded_registry, ui>>

NextPalette == CreateNumberedWorktree

SpecPalette == InitPalette /\ [][NextPalette]_vars

\* ---------------------------------------- provisioning: a load after a create
\* what TASK_001 and TASK_002 hold before the create: nothing, a document with
\* the directory's id, or a document that carries the id of the next directory
AfterChoices(d) ==
    IF ParseNum(d) > 2 THEN {NoDir}
    ELSE { NoDir,
           Dir(ToolDoc(d, "active", {}), NoDoc),
           Dir(ToolDoc(FormatId(ParseNum(d) + 1), "active", {}), NoDoc) }

InitAfter ==
    /\ git_marker = "dir"
    /\ tasks_dir = TRUE
    /\ store \in [DirNames -> UNION {AfterChoices(d) : d \in DirNames}]
    /\ \A d \in DirNames : store[d] \in AfterChoices(d)
    /\ registry = <<>>
    /\ worktrees = {}
    /\ branches = {}
    /\ NoResults

\* load_tasks right after a create call returned
LoadTasksAfterCreate ==
    /\ op = "create_worktree"
    /\ \E order \in Orders(store) :
          tasks' = load_tasks(tasks_dir, store, registry, order)
    /\ op' = "load_tasks"
    /\ UNCHANGED <<disk, args, candidates, next_id, created, previewed, cleaned, actions, returned_text, loaded_registry, nops, ui>>

\* list_cleanup_candidates right after a create call returned
ListCandidatesAfterCreate ==
    /\ op = "create_worktree"
    /\ \E order \in Orders(store), logs \in UniformLogs :
          candidates' = list_cleanup_candidates(tasks_dir, store, registry, order, logs)
    /\ op' = "list_cleanup_candidates"
    /\ UNCHANGED <<disk, args, tasks, next_id, created, previewed, cleaned, actions, returned_text, loaded_registry, nops, ui>>

NextAfter == CreateWorktree \/ LoadTasksAfterCreate \/ ListCandidatesAfterCreate

SpecAfter == InitAfter /\ [][NextAfter]_vars

\* --------------------------------------------------------- cleanup runs
\* what running the script for one id gives: exit status, stdout, stderr
ScriptOuts ==
    { [exit |-> "ok", stdout |-> "removed", stderr |-> ""],
      [exit |-> "ok", stdout |-> "removed", stderr |-> "warning"],
      [exit |-> "nonzero", stdout |-> "partial", stderr |-> "not found"],
      [exit |-> "spawn_err", stdout |-> "", stderr |-> ""] }

IdLists == UNION {[1..n -> DirNames] : n \in 0..MaxIds}

InitExec ==
    /\ git_marker = "dir"
    /\ tasks_dir = TRUE
    /\ store \in [DirNames -> {NoDir}
                     \cup {Dir(ToolDoc(d, "active", {}), NoDoc) : d \in DirNames}]
    /\ \A d \in DirNames : store[d].present => store[d].state.task_id = d
    /\ registry \in {<<>>, <<RegLine(FormatId(1), <<"r">>, <<"b">>)>>}
    /\ worktrees = {d \in DirNames : store[d].present}
    /\ branches = {store[d].state.branch : d \in {x \in DirNames : store[x].present}}
    /\ NoResults

ExecuteCleanup ==
    /\ op = "init"
    /\ \E ids \in IdLists, remove_branch \in BOOLEAN, keep_on_disk \in BOOLEAN :
       \E outs \in [DOMAIN ids -> ScriptOuts] :
          LET d == run_scripts([store |-> store, worktrees |-> worktrees,
                                branches |-> branches],
                               ids, remove_branch, keep_on_disk, outs)
          IN  /\ cleaned' = execute_cleanup(ids, outs)
              /\ store' = d.store
              /\ worktrees' = d.worktrees
              /\ branches' = d.branches
              /\ args' = [NoArgs EXCEPT !.ids = ids, !.remove_branch = remove_branch,
                                        !.keep_on_disk = keep_on_disk, !.outs = outs]
    /\ op' = "execute_cleanup"
    /\ nops' = nops + 1
    /\ UNCHANGED <<git_marker, tasks_dir, registry, tasks, candidates, next_id,
                   created, previewed, actions, returned_text, loaded_registry, ui>>

NextExec == ExecuteCleanup

SpecExec == InitExec /\ [][NextExec]_vars

\* ------------------------------------------------------- cleanup previews
\* the records the candidates of a preview are projected from, each with the
\* has_unmerged flag given to it: for the first directory finished or not,
\* with or without a current phase and a branch name; one record for each of
\* the other directories
PreviewInputs ==
    {[t |-> FromState(FormatId(1), doc), u |-> u] :
        doc \in {ToolDoc(FormatId(1), "active", {}),
                 [ToolDoc(FormatId(1), "active", {}) EXCEPT !.phase = "none"],
                 ToolDoc(FormatId(1), "active", AllPhases \ {"reviewer"}),
                 ToolDoc(FormatId(1), "active", REQUIRED),
                 [ToolDoc(FormatId(1), "active", AllPhases) EXCEPT !.branch = <<>>]},
        u \in BOOLEAN}
    \cup {[t |-> FromState(d, ToolDoc(d, "active", AllPhases)), u |-> FALSE] :
             d \in DirNames \ {FormatId(1)}}

\* the selected records in the order the selection yields them
InputLists == UNION {[1..n -> PreviewInputs] : n \in 0..MaxIds}

InitPrev ==
    /\ git_marker = "dir"
    /\ tasks_dir = TRUE
    /\ store \in [DirNames -> {NoDir}
                     \cup {Dir(ToolDoc(d, "active", {}), NoDoc) : d \in DirNames}]
    /\ \A d \in DirNames : store[d].present <=> d = FormatId(1)
    /\ registry = <<>>
    /\ worktrees = {FormatId(1)}
    /\ branches = {<<"b">>}
    /\ NoResults

PreviewCleanup ==
    /\ op = "init"
    /\ \E ins \in InputLists, remove_branch \in BOOLEAN, keep_on_disk \in BOOLEAN :
          LET cands == [k \in DOMAIN ins |-> Candidate(ins[k].t, ins[k].u)]
          IN  /\ actions' = preview_cleanup(cands, remove_branch, keep_on_disk)
              /\ args' = [NoArgs EXCEPT !.cands = cands,
                                        !.recs = [k \in DOMAIN ins |-> ins[k].t],
                                        !.remove_branch = remove_branch,
                                        !.keep_on_disk = keep_on_disk]
    /\ op' = "preview_cleanup"
    /\ UNCHANGED <<disk, tasks, candidates, next_id, created, previewed, cleaned,
                   returned_text, loaded_registry, nops, ui>>

\* the same call made once more
PreviewCleanupAgain ==
    /\ op = "preview_cleanup"
    /\ actions' = preview_cleanup(args.cands, args.remove_branch, args.keep_on_disk)
    /\ op' = "preview_cleanup_again"
    /\ UNCHANGED <<disk, args, tasks, candidates, next_id, created, previewed, cleaned,
                   returned_text, loaded_registry, nops, ui>>

NextPrev == PreviewCleanup \/ PreviewCleanupAgain

SpecPrev == InitPrev /\ [][NextPrev]_vars

\* --------------------------------------------- the create and cleanup flows
\* popups opened in one run
MaxPopups == 1
\* characters typed into the description
MaxDesc == 1
\* lines scrolled down in the cleanup popup
MaxScroll == 1

\* the keys pressed: the two the flows turn on, a movement, a toggle, a letter
Keys == {"Esc", "Enter", "Down", "Space", "a"}

\* the orders in which iterating a HashSet may yield its elements
Perms(S) ==
    {o \in [1..Cardinality(S) -> S] : \A i, j \in DOMAIN o : i # j => o[i] # o[j]}

\* the external failures a create worker meets in the flows
WorkerEnvs(pull, td) ==
    {e \in Envs(pull, td) :
        /\ e.fail \in {"none", "fetch", "add_nonzero"}
        /\ e.append_ok
        /\ e.stderr = "fatal: e1"}

\* what the cleanup script does for one id in the flows
WorkerOuts == {o \in ScriptOuts : o.stderr # "warning"}

\* a repository with a finished task that has a worktree and a cleaned one
Init ==
    /\ git_marker \in {"dir", "file"}
    /\ tasks_dir = TRUE
    /\ store = [d \in DirNames |->
                  IF d = FormatId(1) THEN Dir(ToolDoc(d, "active", AllPhases), NoDoc)
                  ELSE IF d = FormatId(2)
                       THEN Dir(ToolDoc(d, "cleaned", AllPhases), NoDoc)
                  ELSE NoDir]
    /\ registry = <<>>
    /\ worktrees = {FormatId(1)}
    /\ branches = {<<"b">>}
    /\ op = "init"
    /\ args = NoArgs
    /\ tasks = <<>>
    /\ candidates = <<>>
    /\ next_id = <<>>
    /\ created = NoResult
    /\ previewed = NoResult
    /\ cleaned = <<>>
    /\ actions = <<>>
    /\ returned_text = <<>>
    /\ loaded_registry = << >>
    /\ nops = 0
    /\ \E order \in Orders(store) :
          app = rebuild_tree(
                   [NoApp EXCEPT !.repos = load_tasks(tasks_dir, store, registry, order)])
    /\ workers = NoWorkers

\* keys reach a popup only while it is open, and no popup opens over another
NoPopupOpen == ~app.create_popup.open /\ ~app.cleanup_popup.open

\* the outcomes of the external accesses a key leads to: git during a
\* preview, read_dir during a refresh, the HashSet iteration over the selection
CreateKeyGits(key) ==
    IF app.create_popup.step = "ToggleSettings" /\ key = "Enter"
    THEN {"ok", "nonzero"} ELSE {"ok"}

CreateKeyOrders(key) ==
    IF app.create_popup.step = "Done" /\ key \in {"Esc", "Enter"}
    THEN Orders(store) ELSE {<<>>}

CleanupKeyPerms(key) ==
    IF app.cleanup_popup.step = "SelectWorktrees" /\ key \in {"Space", "a"}
    THEN Perms((0..(Len(app.cleanup_popup.candidates) - 1))
                  \cup {app.cleanup_popup.cursor})
    ELSE {<<>>}

CleanupKeyOrders(key) ==
    IF app.cleanup_popup.step = "Done" /\ key \in {"Esc", "Enter"}
    THEN Orders(store) ELSE {<<>>}

OpenCreatePopup ==
    /\ NoPopupOpen
    /\ nops < MaxPopups
    /\ ParseNum(get_next_task_id(tasks_dir, store)) <= MaxNum
    /\ \E row \in {"repo", "task"} : app' = open_create_popup(app, row)
    /\ op' = "open_create_popup"
    /\ args' = NoArgs
    /\ nops' = nops + 1
    /\ UNCHANGED <<disk, results, workers>>

CreatePopupHandleKey ==
    /\ app.create_popup.open
    /\ \E key \in Keys :
       \E git \in CreateKeyGits(key), order \in CreateKeyOrders(key) :
          /\ (app.create_popup.step = "InputDescription" /\ key \in {"a", "Space"})
                => Len(app.create_popup.description_input) < MaxDesc
          /\ LET s == create_popup_handle_key(app, workers, key,
                                              [git |-> git, order |-> order])
             IN  /\ app' = s.app
                 /\ workers' = s.workers
                 /\ args' = [NoArgs EXCEPT !.key = key, !.launched = s.launched,
                                           !.launch = s.launch]
    /\ op' = "create_popup_handle_key"
    /\ UNCHANGED <<disk, results, nops>>

\* the create worker runs create_worktree to its return
CreateWorkerReturns ==
    /\ workers.create.state = "running"
    /\ \E e \in WorkerEnvs(workers.create.pull, tasks_dir) :
          LET r == create_worktree(git_marker, tasks_dir, store, registry, worktrees,
                                   branches, workers.create.description,
                                   workers.create.pull, e)
          IN  /\ tasks_dir' = r.tasks_dir
              /\ store' = r.store
              /\ registry' = r.registry
              /\ worktrees' = r.worktrees
              /\ branches' = r.branches
              /\ created' = r.result
              /\ workers' = [workers EXCEPT !.create.state = "finished",
                                            !.create.value = r.result]
              /\ args' = [NoArgs EXCEPT !.description = workers.create.description,
                                        !.pull = workers.create.pull,
                                        !.fail = e.fail, !.append_ok = e.append_ok,
                                        !.stderr = e.stderr]
    /\ op' = "create_worktree"
    /\ UNCHANGED <<git_marker, tasks, candidates, next_id, previewed, cleaned, actions, returned_text, loaded_registry, nops,
                   app>>

\* the create worker unwinds without returning
CreateWorkerPanics ==
    /\ workers.create.state = "running"
    /\ workers' = [workers EXCEPT !.create.state = "panicked"]
    /\ op' = "panic"
    /\ args' = NoArgs
    /\ UNCHANGED <<disk, results, nops, app>>

CreatePopupCheckCompletion ==
    /\ app.create_popup.open
    /\ LET s == create_popup_check_completion(app, workers)
       IN  app' = s.app /\ workers' = s.workers
    /\ op' = "create_popup_check_completion"
    /\ args' = NoArgs
    /\ UNCHANGED <<disk, results, nops>>

\* in the popup flows every branch is merged: the query finds no commit
MergedLogs == {[d \in DirNames |-> LogOut("exit", 0, <<>>)]}

OpenCleanupPopup ==
    /\ NoPopupOpen
    /\ nops < MaxPopups
    /\ \E row \in {"repo", "task", "none"}, order \in Orders(store), logs \in MergedLogs :
       \E rank \in Perms(0..(Len(order) - 1)) :
          app' = open_cleanup_popup(app, row, order, logs, rank)
    /\ op' = "open_cleanup_popup"
    /\ args' = NoArgs
    /\ nops' = nops + 1
    /\ UNCHANGED <<disk, results, workers>>

CleanupPopupHandleKey ==
    /\ app.cleanup_popup.open
    /\ \E key \in Keys :
       \E rank \in CleanupKeyPerms(key), order \in CleanupKeyOrders(key) :
          /\ (app.cleanup_popup.step \in {"Preview", "Done"} /\ key = "Down")
                => app.cleanup_popup.scroll < MaxScroll
          /\ LET s == cleanup_popup_handle_key(app, workers, key,
                                               [rank |-> rank, order |-> order])
             IN  /\ app' = s.app
                 /\ workers' = s.workers
                 /\ args' = [NoArgs EXCEPT !.key = key, !.launched = s.launched,
                                           !.launch = s.launch]
    /\ op' = "cleanup_popup_handle_key"
    /\ UNCHANGED <<disk, results, nops>>

\* the cleanup worker runs execute_cleanup to its return
CleanupWorkerReturns ==
    /\ workers.cleanup.state = "running"
    /\ \E outs \in [DOMAIN workers.cleanup.ids -> WorkerOuts] :
          LET t == workers.cleanup
              d == run_scripts([store |-> store, worktrees |-> worktrees,
                                branches |-> branches],
                               t.ids, t.remove_branch, t.keep_on_disk, outs)
          IN  /\ cleaned' = execute_cleanup(t.ids, outs)
              /\ store' = d.store
              /\ worktrees' = d.worktrees
              /\ branches' = d.branches
              /\ workers' = [workers EXCEPT !.cleanup.state = "finished",
                                            !.cleanup.value =
                                                execute_cleanup(t.ids, outs)]
              /\ args' = [NoArgs EXCEPT !.ids = t.ids,
                                        !.remove_branch = t.remove_branch,
                                        !.keep_on_disk = t.keep_on_disk,
                                        !.outs = outs]
    /\ op' = "execute_cleanup"
    /\ UNCHANGED <<git_marker, tasks_dir, registry, tasks, candidates, next_id,
                   created, previewed, actions, returned_text, loaded_registry, nops, app>>

\* the cleanup worker unwinds without returning
CleanupWorkerPanics ==
    /\ workers.cleanup.state = "running"
    /\ workers' = [workers EXCEPT !.cleanup.state = "panicked"]
    /\ op' = "panic"
    /\ args' = NoArgs
    /\ UNCHANGED <<disk, results, nops, app>>

CleanupPopupCheckCompletion ==
    /\ app.cleanup_popup.open
    /\ LET s == cleanup_popup_check_completion(app, workers)
       IN  app' = s.app /\ workers' = s.workers
    /\ op' = "cleanup_popup_check_completion"
    /\ args' = NoArgs
    /\ UNCHANGED <<disk, results, nops>>

Next ==
    \/ OpenCreatePopup
    \/ CreatePopupHandleKey
    \/ CreateWorkerReturns
    \/ CreateWorkerPanics
    \/ CreatePopupCheckCompletion
    \/ OpenCleanupPopup
    \/ CleanupPopupHandleKey
    \/ CleanupWorkerReturns
    \/ CleanupWorkerPanics
    \/ CleanupPopupCheckCompletion

Spec == Init /\ [][Next]_vars

\* the main loop polls both popups on every pass, about every 250 ms
SpecLive ==
    /\ Spec
    /\ WF_vars(CreatePopupCheckCompletion)
    /\ WF_vars(CleanupPopupCheckCompletion)

\* ------------------------------------------------- the cleanup flow's selection
\* a repository whose TASK_001 and TASK_002 are each missing or hold an active
\* worktree binding, the first finished, the second not
InitSel ==
    /\ git_marker = "dir"
    /\ tasks_dir = TRUE
    /\ store \in [DirNames -> {NoDir}
                     \cup {Dir(ToolDoc(d, "active", ph), NoDoc) :
                              d \in DirNames, ph \in {{}, AllPhases}}]
    /\ store[FormatId(1)] \in {NoDir, Dir(ToolDoc(FormatId(1), "active", AllPhases), NoDoc)}
    /\ store[FormatId(2)] \in {NoDir, Dir(ToolDoc(FormatId(2), "active", {}), NoDoc)}
    /\ \A d \in DirNames : ParseNum(d) > 2 => store[d] = NoDir
    /\ registry = <<>>
    /\ worktrees = {d \in DirNames : store[d].present}
    /\ branches = {store[d].state.branch : d \in {x \in DirNames : store[x].present}}
    /\ op = "init"
    /\ args = NoArgs
    /\ tasks = <<>>
    /\ candidates = <<>>
    /\ next_id = <<>>
    /\ created = NoResult
    /\ previewed = NoResult
    /\ cleaned = <<>>
    /\ actions = <<>>
    /\ returned_text = <<>>
    /\ loaded_registry = << >>
    /\ nops = 0
    /\ \E order \in Orders(store) :
          app = rebuild_tree(
                   [NoApp EXCEPT !.repos = load_tasks(tasks_dir, store, registry, order)])
    /\ workers = NoWorkers

NextSel == OpenCleanupPopup \/ CleanupPopupHandleKey

SpecSel == InitSel /\ [][NextSel]_vars

\* ------------------------------------------ browsing: tree, detail, search
\* task subdirectories deleted behind the App's back in one run
MaxGone == 1
\* reloads in one run
MaxRefresh == 1
\* characters typed into the search input
MaxQuery == 1

\* what the subdirectories hold when the App starts: TASK_001 is live or
\* legacy-only, TASK_002 is missing, broken or holds a document with the id
\* of TASK_001, the others are missing
NavChoices(d) ==
    IF d = FormatId(1)
    THEN {Dir(ToolDoc(d, "active", {}), NoDoc), Dir(NoDoc, LegacyDoc(d))}
    ELSE IF d = FormatId(2)
    THEN {NoDir, Dir(NoDoc, BadDoc), Dir(ToolDoc(FormatId(1), "active", {}), NoDoc)}
    ELSE {NoDir}

\* App::new on such a repository
InitNav ==
    /\ git_marker = "dir"
    /\ tasks_dir = TRUE
    /\ store \in [DirNames -> UNION {NavChoices(d) : d \in DirNames}]
    /\ \A d \in DirNames : store[d] \in NavChoices(d)
    /\ registry \in {<<>>, <<RegLine(FormatId(2), <<"r">>, <<"r", "b">>)>>}
    /\ worktrees = {}
    /\ branches = {}
    /\ op = "init"
    /\ args = NoArgs
    /\ tasks = <<>>
    /\ candidates = <<>>
    /\ next_id = <<>>
    /\ created = NoResult
    /\ previewed = NoResult
    /\ cleaned = <<>>
    /\ actions = <<>>
    /\ returned_text = <<>>
    /\ loaded_registry = << >>
    /\ nops = 0
    /\ \E order \in Orders(store) :
          app = ensure_artifacts(rebuild_tree(
                   [NoApp EXCEPT !.repos = load_tasks(tasks_dir, store, registry, order)]))
    /\ workers = NoWorkers

\* the App as a handler finds it: nothing read yet
Fresh == [app EXCEPT !.file_reads = {}]

\* run_app: keys go to the launch popup while it is open; the search popup
\* takes them likewise
NoNavPopup == ~app.launch_popup.open /\ ~app.search_popup.open

\* a handler that takes no input ran
NavStep(name, a) ==
    /\ app' = a
    /\ op' = name
    /\ args' = NoArgs
    /\ UNCHANGED <<disk, results, nops, workers>>

TreeDown == NoNavPopup /\ NavStep("tree_down", tree_down(Fresh))

TreeUp == NoNavPopup /\ NavStep("tree_up", tree_up(Fresh))

TreeToggle == NoNavPopup /\ NavStep("tree_toggle", tree_toggle(Fresh))

EnterDocList == NoNavPopup /\ NavStep("enter_doc_list", enter_doc_list(Fresh))

EnterHistory == NoNavPopup /\ NavStep("enter_history", enter_history(Fresh))

DetailBack ==
    NoNavPopup /\ app.detail_mode # "Overview" /\ NavStep("detail_back", detail_back(Fresh))

DetailOpenDoc ==
    NoNavPopup /\ app.detail_mode # "Overview"
       /\ NavStep("detail_open_doc", detail_open_doc(Fresh))

DrawDocList == NavStep("draw_doc_list", draw_doc_list(Fresh))

OpenLaunchPopup == NoNavPopup /\ NavStep("open_launch_popup", open_launch_popup(Fresh))

CloseLaunchPopup ==
    app.launch_popup.open /\ NavStep("close_launch_popup", close_launch_popup(Fresh))

OpenSearch == NoNavPopup /\ NavStep("open_search", open_search(Fresh))

SearchHandleKey ==
    /\ app.search_popup.open
    /\ \E key \in {"Esc", "Enter", "Up", "Down", "a", "Space"} :
       \E hit \in (IF key \in {"a", "Space"} THEN {"none", "state.json", "md"}
                   ELSE {"none"}) :
          /\ key \in {"a", "Space"} => Len(app.search_popup.input) < MaxQuery
          /\ app' = search_handle_key(Fresh, key, hit)
          /\ args' = [NoArgs EXCEPT !.key = key]
    /\ op' = "search_handle_key"
    /\ UNCHANGED <<disk, results, nops, workers>>

\* F5 and the periodic reload of run_app
Refresh ==
    /\ app.last_refresh < MaxRefresh
    /\ \E order \in Orders(store) : app' = refresh(Fresh, order)
    /\ op' = "refresh"
    /\ args' = NoArgs
    /\ UNCHANGED <<disk, results, nops, workers>>

\* a task subdirectory is deleted while the App shows its record
NavDeleteTaskDir ==
    /\ nops < MaxGone
    /\ \E d \in DirNames :
          /\ store[d].present
          /\ store' = [store EXCEPT ![d] = NoDir]
    /\ op' = "delete"
    /\ args' = NoArgs
    /\ nops' = nops + 1
    /\ UNCHANGED <<git_marker, tasks_dir, registry, worktrees, branches, results, ui>>

NextNav ==
    \/ TreeDown
    \/ TreeUp
    \/ TreeToggle
    \/ EnterDocList
    \/ EnterHistory
    \/ DetailBack
    \/ DetailOpenDoc
    \/ DrawDocList
    \/ OpenLaunchPopup
    \/ CloseLaunchPopup
    \/ OpenSearch
    \/ SearchHandleKey
    \/ Refresh
    \/ NavDeleteTaskDir

SpecNav == InitNav /\ [][NextNav]_vars

\* ------------------------------------------------ the registry log over time
\* the logs an operation starts from: none, an unparseable line, one entry,
\* and entries for one id around an unparseable line
LogChoices ==
    { <<>>,
      <<BadLine>>,
      <<RegLine(FormatId(1), <<"r">>, <<"r", "b">>)>>,
      <<RegLine(FormatId(1), <<"r">>, <<"r", "b">>), BadLine,
        RegLine(FormatId(1), <<"s">>, <<"r", "b">>)>> }

\* a main repository without task store, or with one whose TASK_001 is missing
\* or holds an active task with its worktree and branch
InitLog ==
    /\ git_marker = "dir"
    /\ tasks_dir \in BOOLEAN
    /\ store \in {[d \in DirNames |-> NoDir],
                  [d \in DirNames |->
                      IF d = FormatId(1) THEN Dir(ToolDoc(d, "active", {}), NoDoc)
                      ELSE NoDir]}
    /\ registry \in LogChoices
    /\ ~tasks_dir => (\A d \in DirNames : ~store[d].present) /\ registry = <<>>
    /\ worktrees = {d \in DirNames : store[d].present}
    /\ branches = {store[d].state.branch : d \in {x \in DirNames : store[x].present}}
    /\ NoResults

\* one operation on that repository
CreateOnce == op = "init" /\ CreateWorktree

ExecuteOnce == tasks_dir /\ ExecuteCleanup

RefreshOnce == op = "init" /\ Refresh

NextLog ==
    \/ CreateOnce
    \/ ExecuteOnce
    \/ LoadTasks
    \/ ListCleanupCandidates
    \/ LoadRegistry
    \/ RefreshOnce

SpecLog == InitLog /\ [][NextLog]_vars

\* ================================================================ claims
\* the largest number among the TASK_<n> directory names and the registry ids
MaxObserved ==
    SetMax({ParseNum(d) : d \in {x \in DirNames : store[x].present}}
           \cup {ParseNum(registry[i].task_id) :
                   i \in {j \in DOMAIN registry : registry[j].ok}})

IdsOf(s) == {s[i].task_id : i \in DOMAIN s}

\* C1: load_tasks returns a list in which every integer of 1..max_observed is
\* the id of exactly one record, sorted ascending by id, whatever the documents
\* of the task store hold.
C1_GapFreeUniqueSorted ==
    op = "load_tasks" =>
       /\ \A n \in 1..MaxObserved :
             Cardinality({i \in DOMAIN tasks : tasks[i].task_id = FormatId(n)}) = 1
       /\ \A i, j \in DOMAIN tasks :
             i < j => StrLeq(tasks[i].task_id, tasks[j].task_id)

\* C2: the id returned by get_next_task_id has a number strictly greater than
\* every TASK_<n> directory number and every registry id number:
\* max(disk_max, registry_max) + 1.
C2_NextIdAboveDiskAndRegistry ==
    op = "get_next_task_id" => ParseNum(next_id) = MaxObserved + 1

\* C4: every candidate returned by list_cleanup_candidates is the projection of
\* a live record (a directory with a parseable state document) whose worktree
\* binding has status "active": none is cleaned, recyclable, legacy, a
\* placeholder or without binding.
C4_CandidatesLiveAndActive ==
    op = "list_cleanup_candidates" =>
       \A i \in DOMAIN candidates :
          /\ candidates[i].status = "active"
          /\ \E d \in DirNames :
                /\ store[d].present
                /\ store[d].state.k = "ok"
                /\ store[d].state.task_id = candidates[i].task_id
                /\ store[d].state.wt = "active"

\* a store with an active, a cleaned, a recyclable binding: one candidate
C4_Witness ==
    /\ op = "list_cleanup_candidates"
    /\ Len(candidates) = 1
    /\ \E d \in DirNames : store[d].present /\ store[d].state.wt = "cleaned"
    /\ \E d \in DirNames : store[d].present /\ store[d].state.wt = "recyclable"
    /\ \E i \in DOMAIN registry : registry[i].ok

\* C3: execute_cleanup on N ids returns N results, the i-th tagged with the
\* i-th id; exit 0 gives success with the captured stdout, a non-zero exit a
\* failure with the captured stderr, a script that cannot be started a failure,
\* and no failure keeps the other ids from being processed and reported.
C3_OneTaggedResultPerId ==
    op = "execute_cleanup" =>
       /\ Len(cleaned) = Len(args.ids)
       /\ \A i \in DOMAIN args.ids :
             /\ cleaned[i].task_id = args.ids[i]
             /\ args.outs[i].exit = "ok" =>
                   cleaned[i].success /\ cleaned[i].message = <<args.outs[i].stdout>>
             /\ args.outs[i].exit = "nonzero" =>
                   /\ ~cleaned[i].success
                   /\ cleaned[i].message = <<"Failed: ", args.outs[i].stderr>>
             /\ args.outs[i].exit = "spawn_err" => ~cleaned[i].success

\* two ids, the script fails for the first and succeeds for the second
C3_Witness ==
    /\ op = "execute_cleanup"
    /\ Len(args.ids) = 2
    /\ args.outs[1].exit = "nonzero"
    /\ args.outs[2].exit = "ok"
    /\ Len(cleaned) = 2
    /\ cleaned[2].success

\* C5: when <repo>/.git is missing or is a file, create_worktree and preview
\* return the error "Not a git repository" / "Already inside a worktree" and
\* nothing on disk changes: no task store, task subdirectory, registry entry,
\* worktree or branch is created.
C5_PreconditionRejectedBeforeMutation ==
    [][ (git_marker # "dir" /\ op' \in {"create_worktree", "preview"}) =>
          /\ UNCHANGED disk
          /\ LET r == IF op' = "create_worktree" THEN created' ELSE previewed'
             IN  /\ ~r.ok
                 /\ r.err[1] =
                      IF git_marker = "none" THEN "Not a git repository"
                      ELSE IF op' = "preview" THEN "Already inside a worktree"
                      ELSE "Already inside a worktree. Create from the main repo."
      ]_vars

\* create_worktree called with pull inside a worktree, no task store before
C5_Witness ==
    /\ op = "create_worktree"
    /\ git_marker = "file"
    /\ args.pull
    /\ ~created.ok
    /\ ~tasks_dir
    /\ registry = <<>>

\* the id a create call allocates: one above the largest directory number
NewId == FormatId(SetMax({ParseNum(d) : d \in {x \in DirNames : store[x].present}}) + 1)

\* the create step in which git worktree add runs and exits non-zero
AddExitsNonZero ==
    /\ op' = "create_worktree"
    /\ git_marker = "dir"
    /\ \/ args'.fail = "add_nonzero"
       \/ /\ args'.fail \in {"none", "symlink"}
          /\ \/ NewId \in worktrees
             \/ generate_branch_name(args'.description) \in branches

Terminated(t) == t.state \in {"finished", "panicked"}

CreateExecuting == app.create_popup.open /\ app.create_popup.step = "Executing"

CleanupExecuting == app.cleanup_popup.open /\ app.cleanup_popup.step = "Executing"

\* C7: whenever the create or the cleanup popup is in the Done step a result
\* is recorded (create: Ok or Err, cleanup: a result list), and the poll that
\* finds the worker returned moves Executing to Done with the returned value
\* recorded, an error or failed items the same way as a success.
C7_DoneHasResult ==
    /\ [](app.create_popup.open /\ app.create_popup.step = "Done"
             => app.create_popup.result.some)
    /\ [](app.cleanup_popup.open /\ app.cleanup_popup.step = "Done"
             => app.cleanup_popup.results.some)
    /\ [][ (/\ CreateExecuting
            /\ workers.create.state = "finished"
            /\ op' = "create_popup_check_completion")
           => /\ app'.create_popup.step = "Done"
              /\ app'.create_popup.result = Some(workers.create.value) ]_vars
    /\ [][ (/\ CleanupExecuting
            /\ workers.cleanup.state = "finished"
            /\ op' = "cleanup_popup_check_completion")
           => /\ app'.cleanup_popup.step = "Done"
              /\ app'.cleanup_popup.results = Some(workers.cleanup.value) ]_vars

\* the create popup in Done after its worker failed in git worktree add
C7_Witness ==
    /\ app.create_popup.open
    /\ app.create_popup.step = "Done"
    /\ app.create_popup.started_at
    /\ app.create_popup.result.some
    /\ ~app.create_popup.result.val.ok
    /\ app.create_popup.result.val.err[1] = "git worktree add failed: "

\* a popup in one of the steps before Executing
BeforeExecuting(p) == p.open /\ p.step \notin {"Executing", "Done"}

\* C8: in both flows an Esc in a step before Executing closes the popup and
\* drops its input, with no worker spawned, no change on disk, no refresh and
\* no launch; while the flow is Executing no key changes the popup or the
\* worker, and the step leaves Executing only in a completion poll that finds
\* the worker terminated.
C8_EscCancelsOnlyBeforeExecuting ==
    /\ [][ (/\ BeforeExecuting(app.create_popup)
            /\ op' = "create_popup_handle_key"
            /\ args'.key = "Esc")
           => /\ app' = [app EXCEPT !.create_popup = NoCreatePopup]
              /\ workers' = workers
              /\ ~args'.launched
              /\ UNCHANGED disk ]_vars
    /\ [][ (/\ BeforeExecuting(app.cleanup_popup)
            /\ op' = "cleanup_popup_handle_key"
            /\ args'.key = "Esc")
           => /\ app' = [app EXCEPT !.cleanup_popup = NoCleanupPopup]
              /\ workers' = workers
              /\ UNCHANGED disk ]_vars
    /\ [][ (CreateExecuting /\ op' = "create_popup_handle_key")
           => app' = app /\ workers' = workers /\ UNCHANGED disk ]_vars
    /\ [][ (CleanupExecuting /\ op' = "cleanup_popup_handle_key")
           => app' = app /\ workers' = workers /\ UNCHANGED disk ]_vars
    /\ [][ (CreateExecuting /\ app'.create_popup # app.create_popup)
           => /\ op' = "create_popup_check_completion"
              /\ Terminated(workers.create) ]_vars
    /\ [][ (CleanupExecuting /\ app'.cleanup_popup # app.cleanup_popup)
           => /\ op' = "cleanup_popup_check_completion"
              /\ Terminated(workers.cleanup) ]_vars

\* Esc was pressed while the create worker runs: still Executing
C8_Witness ==
    /\ CreateExecuting
    /\ op = "create_popup_handle_key"
    /\ args.key = "Esc"
    /\ workers.create.state = "running"
    /\ app.create_popup.handle

\* C9: once the worker of an Executing flow has terminated, by returning or
\* by panicking, and the polls go on, the flow reaches Done; the first poll
\* after the termination records a result and sets the step to Done.
C9_TerminatedWorkerReachesDone ==
    /\ (CreateExecuting /\ Terminated(workers.create))
          ~> (app.create_popup.open /\ app.create_popup.step = "Done")
    /\ (CleanupExecuting /\ Terminated(workers.cleanup))
          ~> (app.cleanup_popup.open /\ app.cleanup_popup.step = "Done")
    /\ [][ (/\ CreateExecuting
            /\ Terminated(workers.create)
            /\ op' = "create_popup_check_completion")
           => /\ app'.create_popup.step = "Done"
              /\ app'.create_popup.result.some ]_vars
    /\ [][ (/\ CleanupExecuting
            /\ Terminated(workers.cleanup)
            /\ op' = "cleanup_popup_check_completion")
           => /\ app'.cleanup_popup.step = "Done"
              /\ app'.cleanup_popup.results.some ]_vars

\* the poll that found the create worker returned with Ok
C9_Witness ==
    /\ op = "create_popup_check_completion"
    /\ app.create_popup.step = "Done"
    /\ app.create_popup.result.val.ok
    /\ ~app.create_popup.handle
    /\ workers.create.state = "none"

\* C10: the poll that finds the worker panicked records one synthesized
\* failure (create: the error "Thread panicked"; cleanup: a list of exactly
\* one result whose success is false) and moves the flow to Done.
C10_PanicSynthesizesFailure ==
    /\ [][ (/\ CreateExecuting
            /\ workers.create.state = "panicked"
            /\ op' = "create_popup_check_completion")
           => /\ app'.create_popup.step = "Done"
              /\ app'.create_popup.result = Some(Err("Thread panicked", "")) ]_vars
    /\ [][ (/\ CleanupExecuting
            /\ workers.cleanup.state = "panicked"
            /\ op' = "cleanup_popup_check_completion")
           => /\ app'.cleanup_popup.step = "Done"
              /\ app'.cleanup_popup.results.some
              /\ Len(app'.cleanup_popup.results.val) = 1
              /\ ~app'.cleanup_popup.results.val[1].success ]_vars

\* the cleanup popup in Done with the result synthesized for a panic
C10_Witness ==
    /\ app.cleanup_popup.open
    /\ app.cleanup_popup.step = "Done"
    /\ op = "cleanup_popup_check_completion"
    /\ Len(app.cleanup_popup.results.val) = 1
    /\ app.cleanup_popup.results.val[1].task_id = UnknownId
    /\ app.cleanup_popup.results.val[1].message = <<"Thread panicked">>

GitDuring(fail) ==
    IF fail = "branch_spawn" THEN "spawn_err"
    ELSE IF fail = "branch_nonzero" THEN "nonzero"
    ELSE IF fail = "branch_empty" THEN "empty" ELSE "ok"

\* the errors of create_worktree that come from detecting the base branch
BaseDetectionErrors ==
    {"Failed to run git: ", "Failed to detect current branch",
     "Could not detect current branch"}

\* C12: preview changes nothing on disk, and when it returns Ok, a
\* create_worktree without pull on the same snapshot, same description and same
\* git answer does not fail on base-branch detection and, when it succeeds,
\* reports the task id, branch name, base branch and colour the preview showed.
C12_PreviewAgreesWithCreate ==
    [][ /\ (op' = "preview" => UNCHANGED disk)
        /\ ( ( /\ op = "preview" /\ previewed.ok
               /\ op' = "create_worktree" /\ ~args'.pull
               /\ args'.description = args.description
               /\ GitDuring(args'.fail) = args.git )
             => /\ ~created'.ok => created'.err[1] \notin BaseDetectionErrors
                /\ created'.ok =>
                     /\ created'.task_id = previewed.task_id
                     /\ created'.branch_name = previewed.branch_name
                     /\ created'.base_branch = previewed.base_branch
                     /\ created'.color_scheme_index = previewed.color_scheme_index )
      ]_vars

\* the directories present in which neither state.json nor metadata.json parses
BrokenDirs ==
    {d \in DirNames : store[d].present /\ store[d].state.k # "ok"
                      /\ store[d].meta.k # "ok"}

\* C13: load_tasks always returns a list: the empty one when the task store
\* cannot be read; a TASK_<n> directory none of whose documents parses gives no
\* live record, its number is within the range the list covers, exactly one
\* record has id n and it is a non-live placeholder, and every other directory
\* still contributes the record its own documents give.
C13_BrokenDirDegradesToMissing ==
    op = "load_tasks" =>
       /\ ~tasks_dir => tasks = <<>>
       /\ \A d \in BrokenDirs :
             /\ LoadDir(d, store[d]) = <<>>
             /\ \E i \in DOMAIN tasks : ParseNum(tasks[i].task_id) >= ParseNum(d)
             /\ Cardinality({i \in DOMAIN tasks : tasks[i].task_id = d}) = 1
             /\ \A i \in DOMAIN tasks :
                   tasks[i].task_id = d =>
                      tasks[i] = Placeholder(d, load_registry(registry))
       /\ \A e \in DirNames \ BrokenDirs :
             store[e].present /\ LoadDir(e, store[e]) # <<>> =>
                \E i \in DOMAIN tasks : tasks[i] = LoadDir(e, store[e])[1]

\* the records of the list, as a set
RecordsOf(s) == {s[i] : i \in DOMAIN s}

\* the directory's number is within the range of numbers the list covers
KeptForGapTracking(d) ==
    \E i \in DOMAIN tasks : ParseNum(tasks[i].task_id) >= ParseNum(d)

\* C14 as stated: whenever state.json gives no record (absent, unreadable or
\* malformed) and metadata.json parses, the list holds the record built from
\* metadata.json; when neither parses the directory gives no record and its
\* number is kept for gap tracking.
C14_LegacyFallbackOnAnyFailure ==
    op = "load_tasks" =>
       \A d \in DirNames :
          store[d].present /\ store[d].state.k # "ok" =>
             IF store[d].meta.k = "ok"
             THEN FromMetadata(d, store[d].meta) \in RecordsOf(tasks)
             ELSE /\ \A t \in RecordsOf(tasks) :
                        t.dir = d => t = Placeholder(t.task_id, load_registry(registry))
                  /\ KeptForGapTracking(d)

\* C14 amended: metadata.json is consulted only when state.json is absent; a
\* state.json that exists but cannot be read or parsed drops the record without
\* looking at metadata.json.  A dropped directory's number is kept for gap
\* tracking.
C14_LegacyOnlyWhenStateAbsent ==
    op = "load_tasks" =>
       \A d \in DirNames :
          store[d].present /\ store[d].state.k # "ok" =>
             IF store[d].state.k = "absent" /\ store[d].meta.k = "ok"
             THEN FromMetadata(d, store[d].meta) \in RecordsOf(tasks)
             ELSE /\ FromMetadata(d, store[d].meta) \notin RecordsOf(tasks)
                  /\ \A t \in RecordsOf(tasks) :
                        t.dir = d => t = Placeholder(t.task_id, load_registry(registry))
                  /\ KeptForGapTracking(d)

\* one directory with a malformed state.json beside a parseable metadata.json,
\* dropped, and one with metadata.json only, loaded from it
C14_Witness ==
    /\ op = "load_tasks"
    /\ store[FormatId(1)] = Dir(BadDoc, LegacyDoc(FormatId(1)))
    /\ store[FormatId(2)] = Dir(NoDoc, LegacyDoc(FormatId(2)))
    /\ FromMetadata(FormatId(2), LegacyDoc(FormatId(2))) \in RecordsOf(tasks)
    /\ FromMetadata(FormatId(1), LegacyDoc(FormatId(1))) \notin RecordsOf(tasks)

\* the ids of the records read from the directories
LoadedIds ==
    {LoadDir(d, store[d])[1].task_id :
        d \in {x \in DirNames : store[x].present /\ LoadDir(x, store[x]) # <<>>}}

\* the lines of the Registry Log that parse and carry the id
EntriesFor(id) == {j \in DOMAIN registry : registry[j].ok /\ registry[j].task_id = id}

\* C15: for every id of 1..max_observed that no loaded record carries, the
\* list holds a placeholder with that id; it is non-live, and its description,
\* branch and created_at are those of the registry entry for the id (the last
\* such line) when there is one, else its description is "(deleted)".
C15_PlaceholderNonLiveAndHydrated ==
    op = "load_tasks" =>
       \A n \in 1..MaxObserved :
          FormatId(n) \notin LoadedIds =>
             /\ \E i \in DOMAIN tasks : tasks[i].task_id = FormatId(n)
             /\ \A i \in DOMAIN tasks :
                   tasks[i].task_id = FormatId(n) =>
                      /\ tasks[i].archived
                      /\ IF EntriesFor(FormatId(n)) # {}
                         THEN LET e == registry[SetMax(EntriesFor(FormatId(n)))]
                              IN  /\ tasks[i].description = e.description
                                  /\ tasks[i].branch = e.branch
                                  /\ tasks[i].created_at = e.created_at
                         ELSE tasks[i].description = <<"(deleted)">>

\* directories TASK_001 and TASK_003 with their own documents and a registry
\* entry for TASK_002: three records, the second a hydrated placeholder
C15_Witness ==
    /\ op = "load_tasks"
    /\ store[FormatId(1)].state.k = "ok" /\ store[FormatId(1)].state.task_id = FormatId(1)
    /\ ~store[FormatId(2)].present
    /\ store[FormatId(3)].state.k = "ok" /\ store[FormatId(3)].state.task_id = FormatId(3)
    /\ Len(registry) = 1 /\ registry[1].ok /\ registry[1].task_id = FormatId(2)
    /\ Len(tasks) = 3
    /\ tasks[2].task_id = FormatId(2) /\ tasks[2].archived
    /\ tasks[2].description = registry[1].description
    /\ tasks[2].branch = registry[1].branch

\* C16: the list load_tasks returns is in ascending order of the id numbers,
\* also when the store holds ids below and above 999: the record of TASK_999
\* comes before the record of TASK_1000.
C16_NumericOrderPastThreeDigits ==
    op = "load_tasks" =>
       \A i, j \in DOMAIN tasks :
          i < j => ParseNum(tasks[i].task_id) <= ParseNum(tasks[j].task_id)

\* the selected record is a non-live one
NonLiveSelected(a) ==
    current_loaded_task(a) # 0 /\ a.repos[current_loaded_task(a)].archived

\* the names match_task_fields gives for a match in an in-memory field
FieldSources == {"task_id", "description", "branch", "phase"}

CleanedOk(ids, outs) == {ids[i] : i \in {j \in DOMAIN ids : outs[j].exit = "ok"}}

\* C18: execute_cleanup leaves the task store as it was but for the binding
\* status of the tasks it cleaned: every task subdirectory is still there with
\* the same documents, the registry log is the same, and the only field that
\* differs is the status of an id whose script succeeded, which is
\* "recyclable" when the worktree is kept on disk and "cleaned" otherwise.
C18_CleanupTouchesOnlyBindingStatus ==
    [][ op' = "execute_cleanup" =>
          /\ tasks_dir' = tasks_dir
          /\ registry' = registry
          /\ \A d \in DirNames :
                /\ store'[d].present = store[d].present
                /\ store'[d].meta = store[d].meta
                /\ [store'[d].state EXCEPT !.wt = store[d].state.wt] = store[d].state
                /\ store'[d].state.wt # store[d].state.wt =>
                      /\ d \in CleanedOk(args'.ids, args'.outs)
                      /\ store'[d].state.wt =
                            IF args'.keep_on_disk THEN "recyclable" ELSE "cleaned"
      ]_vars

\* a batch of two: the first id cleaned, the second failed and left active,
\* with a registry log that is not empty
C18_Witness ==
    /\ op = "execute_cleanup"
    /\ Len(args.ids) = 2 /\ args.ids[1] # args.ids[2]
    /\ cleaned[1].success /\ ~cleaned[2].success
    /\ store[args.ids[1]].present /\ store[args.ids[1]].state.wt = "cleaned"
    /\ store[args.ids[2]].present /\ store[args.ids[2]].state.wt = "active"
    /\ registry # <<>>

\* C19: preview_cleanup changes neither the disk nor the candidates nor the
\* popups, returns one action per candidate, in the order of the candidates it
\* was given and carrying each one's id, and a second call with the same
\* arguments returns the same list.
C19_PreviewOnePerCandidateInOrder ==
    [][ op' \in {"preview_cleanup", "preview_cleanup_again"} =>
          /\ UNCHANGED <<disk, candidates, app>>
          /\ Len(actions') = Len(args'.cands)
          /\ \A i \in DOMAIN args'.cands : actions'[i].task_id = args'.cands[i].task_id
          /\ op' = "preview_cleanup_again" => actions' = actions
      ]_vars

\* two candidates given with the larger id first, previewed twice
C19_Witness ==
    /\ op = "preview_cleanup_again"
    /\ Len(actions) = 2
    /\ actions[1].task_id = FormatId(2)
    /\ actions[2].task_id = FormatId(1)

\* the positions of a command in a command list
Positions(cmds, c) == {i \in DOMAIN cmds : cmds[i] = c}

\* C20: the commands of an action are, in this order: the worktree removal,
\* present iff the worktree is not kept on disk; the branch deletion, present
\* iff remove_branch is set and the candidate names a branch; one state note,
\* last, "recyclable" iff the worktree is kept on disk and "cleaned" otherwise.
C20_CommandOrder ==
    [][ op' = "preview_cleanup" =>
          \A i \in DOMAIN actions' :
             LET cmds == actions'[i].commands
                 rm == Positions(cmds, "git worktree remove")
                 br == Positions(cmds, "git branch -d")
                 note == IF args'.keep_on_disk THEN "status recyclable"
                         ELSE "status cleaned"
                 notes == Positions(cmds, "status recyclable")
                             \cup Positions(cmds, "status cleaned")
             IN  /\ rm = IF args'.keep_on_disk THEN {} ELSE {1}
                 /\ br = IF args'.remove_branch /\ args'.cands[i].branch # <<>>
                         THEN {Cardinality(rm) + 1} ELSE {}
                 /\ notes = {Len(cmds)}
                 /\ Len(cmds) = Cardinality(rm) + Cardinality(br) + 1
                 /\ cmds[Len(cmds)] = note
      ]_vars

\* with remove_branch set and nothing kept on disk: three commands for a
\* candidate with a branch, two for one without
C20_Witness ==
    /\ op = "preview_cleanup"
    /\ args.remove_branch /\ ~args.keep_on_disk
    /\ Len(actions) = 2
    /\ actions[1].commands = <<"git worktree remove", "git branch -d", "status cleaned">>
    /\ args.cands[2].branch = <<>>
    /\ actions[2].commands = <<"git worktree remove", "status cleaned">>

\* the warnings of a kind in a list of warnings
OfKind(ws, kind) == SelectSeq(ws, LAMBDA w : w.kind = kind)

\* C21: the warnings of an action are the unmerged-commits warning, present
\* (once, for the candidate's branch and base) iff the candidate is flagged
\* has_unmerged, and the unfinished-workflow warning, present (once) iff some
\* required phase is missing from the completed set of the record, naming the
\* record's current phase or "unknown" when it has none; there is no other.
C21_WarningsExactlyUnmergedAndIncomplete ==
    [][ op' = "preview_cleanup" =>
          \A i \in DOMAIN actions' :
             LET ws == actions'[i].warnings
                 c == args'.cands[i]
                 t == args'.recs[i]
                 unmerged == OfKind(ws, "has unmerged commits")
                 unfinished == OfKind(ws, "Workflow not complete")
                 required == {"architect", "developer", "reviewer", "implementer",
                              "technical_writer"}
             IN  /\ Len(ws) = Len(unmerged) + Len(unfinished)
                 /\ Len(unmerged) = IF c.has_unmerged THEN 1 ELSE 0
                 /\ \A k \in DOMAIN unmerged :
                       unmerged[k].branch = c.branch /\ unmerged[k].base = c.base_branch
                 /\ Len(unfinished) =
                       IF required \subseteq t.phases_completed THEN 0 ELSE 1
                 /\ \A k \in DOMAIN unfinished :
                       unfinished[k].phase =
                          IF t.phase = "none" THEN "unknown" ELSE t.phase
      ]_vars

\* one preview of three kinds of candidate: unmerged and unfinished without a
\* current phase, finished but for the optional phase, unfinished with one
\* required phase missing
C21_Witness ==
    /\ op = "preview_cleanup"
    /\ \E i \in DOMAIN actions :
          /\ Len(actions[i].warnings) = 2
          /\ actions[i].warnings[1].kind = "has unmerged commits"
          /\ actions[i].warnings[2].phase = "unknown"
    /\ \E i \in DOMAIN actions :
          /\ args.recs[i].phases_completed = REQUIRED
          /\ actions[i].warnings = <<>>

\* the directories whose binding is active
ActiveDirs == {d \in DirNames : store[d].present /\ store[d].state.wt = "active"}

\* C22: list_cleanup_candidates returns one candidate for every active
\* binding whatever the log-range query does, and a candidate's has_unmerged
\* is true iff its branch and its base branch are non-empty and the query
\* exits with 0 and lists a commit; a query that cannot be started or exits
\* non-zero gives false.
C22_UnmergedIffQueryListsACommit ==
    op = "list_cleanup_candidates" =>
       /\ Len(candidates) = Cardinality(ActiveDirs)
       /\ \A d \in ActiveDirs :
             \E i \in DOMAIN candidates :
                /\ candidates[i].task_id = d
                /\ candidates[i].has_unmerged <=>
                      /\ store[d].state.base_branch # <<>>
                      /\ store[d].state.branch # <<>>
                      /\ args.logs[d].k = "exit"
                      /\ args.logs[d].code = 0
                      /\ \E k \in DOMAIN args.logs[d].stdout :
                            args.logs[d].stdout[k] = "c"

\* two candidates: one with a commit listed, one whose query printed a commit
\* line but exited non-zero
C22_Witness ==
    /\ op = "list_cleanup_candidates"
    /\ Len(candidates) = 2
    /\ candidates[1].has_unmerged
    /\ ~candidates[2].has_unmerged
    /\ args.logs[FormatId(2)] = LogOut("exit", 1, <<"c", "\n">>)
    /\ store[FormatId(2)].state.base_branch # <<>>
    /\ store[FormatId(2)].state.branch # <<>>

\* letters and digits, in either case
IsAlnum(c) ==
    \/ \E i \in DOMAIN Letters : c = Letters[i] \/ c = Capitals[i]
    \/ c \in Digits
    \/ c = "I_dot"

HasAlnum(text) == \E i \in DOMAIN text : IsAlnum(text[i])

\* the part of a branch name after "crew/"
SlugPart(name) == SubSeq(name, Len(CrewPrefix) + 1, Len(name))

\* a called generate_branch_name has returned a name
Named == op \in {"generate_branch_name", "generate_branch_name_again"}

\* what C23 and its amended form share: the name is "crew/" and at most 50
\* characters, the last of them not a dash, and a second call gives it again
NameShape ==
    /\ Named =>
          /\ SubSeq(returned_text, 1, Len(CrewPrefix)) = CrewPrefix
          /\ Len(SlugPart(returned_text)) <= 50
          /\ returned_text[Len(returned_text)] # "-"
    /\ op = "generate_branch_name_again" =>
          returned_text = generate_branch_name(args.description)

\* C23 as stated: generate_branch_name returns a name for every description,
\* the same on a second call, "crew/" and at most 50 characters, never ending
\* in "-", and the name is "crew/new-task" exactly when the description has no
\* letter or digit (its slug is empty).
C23_FallbackExactlyWhenSlugEmpty ==
    /\ NameShape
    /\ Named => (returned_text = Fallback <=> ~HasAlnum(args.description))

\* C23 amended: as above, but the fallback is returned whenever the slug is
\* empty, and a description with a letter or digit gives a name that begins
\* with one; that name is the fallback's too when the slug is "new-task".
C23_FallbackWheneverSlugEmpty ==
    /\ NameShape
    /\ Named =>
          IF HasAlnum(args.description)
          THEN /\ Len(SlugPart(returned_text)) > 0
               /\ SlugPart(returned_text)[1] # "-"
               /\ returned_text = Fallback =>
                     slugify(args.description) = SlugPart(Fallback)
          ELSE returned_text = Fallback

\* a description of more than 50 characters whose cut falls on a dash, named
\* twice: the dash is dropped and 49 characters are left
C23_Witness ==
    /\ op = "generate_branch_name_again"
    /\ Len(args.description) > 50
    /\ Len(SlugPart(returned_text)) = 49
    /\ returned_text # Fallback

\* the letters and digits of a text, in order
AlnumOf(text) == SelectSeq(text, LAMBDA c : c # "-")

IsPrefix(a, b) == Len(a) <= Len(b) /\ SubSeq(b, 1, Len(a)) = a

\* made of a-z, 0-9 and dashes, without two dashes in a row and without a dash
\* at either end
WellFormedSlug(slug) ==
    /\ \A i \in DOMAIN slug :
          \/ \E k \in DOMAIN Letters : slug[i] = Letters[k]
          \/ slug[i] \in Digits
          \/ slug[i] = "-"
    /\ \A i \in 1..(Len(slug) - 1) : ~(slug[i] = "-" /\ slug[i + 1] = "-")
    /\ slug # <<>> => slug[1] # "-" /\ slug[Len(slug)] # "-"

\* C24: the slug of every text, and the slug part of every branch name, is
\* made of a-z, 0-9 and single dashes with none at either end; its letters and
\* digits are those of the lowercased text in order (a prefix of them when
\* the name was cut), and "Add user auth with JWT!" gives
\* "crew/add-user-auth-with-jwt".
C24_SlugWellFormed ==
    LET lowered == SelectSeq(ToLowercase(args.description),
                             LAMBDA c : (\E k \in DOMAIN Letters : c = Letters[k])
                                        \/ c \in Digits)
    IN  /\ op = "slugify" =>
              /\ WellFormedSlug(returned_text)
              /\ AlnumOf(returned_text) = lowered
        /\ Named =>
              /\ WellFormedSlug(SlugPart(returned_text))
              /\ HasAlnum(args.description) =>
                    IsPrefix(AlnumOf(SlugPart(returned_text)), lowered)
              /\ args.description =
                    <<"A", "d", "d", " ", "u", "s", "e", "r", " ", "a", "u", "t", "h",
                      " ", "w", "i", "t", "h", " ", "J", "W", "T", "!">>
                 => returned_text =
                       <<"c", "r", "e", "w", "/", "a", "d", "d", "-", "u", "s", "e",
                         "r", "-", "a", "u", "t", "h", "-", "w", "i", "t", "h", "-",
                         "j", "w", "t">>

\* the slug of a text with tabs, a newline, an underscore and a dash between
\* two letters, some of them at the ends
C24_Witness ==
    /\ op = "slugify"
    /\ args.description = <<"\t", "a", "\n", "_", " ", "-", "b", "\t">>
    /\ returned_text = <<"a", "-", "b">>

\* the Enter that asks for the create preview, in a repository where the
\* preview call fails: .git is not a directory
CreatePreviewFails ==
    /\ app.create_popup.open
    /\ app.create_popup.step = "ToggleSettings"
    /\ op' = "create_popup_handle_key"
    /\ args'.key = "Enter"
    /\ git_marker # "dir"

\* the Enter that asks for the cleanup preview
CleanupPreviewAsked ==
    /\ app.cleanup_popup.open
    /\ app.cleanup_popup.step = "Settings"
    /\ op' = "cleanup_popup_handle_key"
    /\ args'.key = "Enter"

\* what C25 and its amended form share: a failed preview call leaves the
\* popup open with the error recorded for display, spawns no worker and
\* changes nothing on disk
FailedPreviewKeepsPopup ==
    [][ CreatePreviewFails =>
          /\ app'.create_popup.open
          /\ app'.create_popup.result.some
          /\ ~app'.create_popup.result.val.ok
          /\ ~app'.create_popup.handle
          /\ ~app'.create_popup.started_at
          /\ workers' = workers
          /\ UNCHANGED disk ]_vars

\* C25 as stated: a failed preview call keeps the popup open with the error
\* shown, spawns no worker and changes nothing on disk, and a flow enters Done
\* only from Executing.
C25_OnlyExecutingReachesDone ==
    /\ FailedPreviewKeepsPopup
    /\ [][ (app'.create_popup.open /\ app'.create_popup.step = "Done"
            /\ app.create_popup.step # "Done") => CreateExecuting ]_vars
    /\ [][ (app'.cleanup_popup.open /\ app'.cleanup_popup.step = "Done"
            /\ app.cleanup_popup.step # "Done") => CleanupExecuting ]_vars

\* C25 amended: a failed preview call keeps the popup open with the error
\* recorded, spawns no worker and changes nothing on disk; in the create flow
\* it moves the popup to Done with that error as result, so the create flow
\* enters Done from Executing or from a failed preview; the cleanup preview
\* has no failure, it leads to the Preview step, and the cleanup flow enters
\* Done from Executing only.
C25_FailedPreviewShownInDone ==
    /\ FailedPreviewKeepsPopup
    /\ [][ CreatePreviewFails => app'.create_popup.step = "Done" ]_vars
    /\ [][ (app'.create_popup.open /\ app'.create_popup.step = "Done"
            /\ app.create_popup.step # "Done")
           => CreateExecuting \/ CreatePreviewFails ]_vars
    /\ [][ CleanupPreviewAsked =>
              /\ app'.cleanup_popup.open
              /\ app'.cleanup_popup.step = "Preview"
              /\ workers' = workers
              /\ UNCHANGED disk ]_vars
    /\ [][ (app'.cleanup_popup.open /\ app'.cleanup_popup.step = "Done"
            /\ app.cleanup_popup.step # "Done") => CleanupExecuting ]_vars

\* the create popup in Done with the preview's error, no worker ever started
C25_Witness ==
    /\ op = "create_popup_handle_key"
    /\ app.create_popup.open
    /\ app.create_popup.step = "Done"
    /\ ~app.create_popup.started_at
    /\ app.create_popup.result.some
    /\ ~app.create_popup.result.val.ok
    /\ app.create_popup.result.val.err[1] = "Already inside a worktree"
    /\ workers = NoWorkers

\* a popup in the Done step
InDone(p) == p.open /\ p.step = "Done"

\* the step reloaded the tasks: App::refresh ran
Refreshed == app'.last_refresh = app.last_refresh + 1

\* C26: a popup closes only on a key of the operator; closing the create popup
\* from Done with a success recorded, or the cleanup popup from Done with a
\* result list, reloads the tasks; an Esc before Executing neither reloads nor
\* launches; a terminal is launched only by the create popup, in the step that
\* closes it, only from Done with a success recorded and launch_after set, for
\* the host chosen, with the worktree path, task id and colour of the result.
C26_CloseRefreshesAndLaunchesOnce ==
    /\ [][ (app.create_popup.open /\ ~app'.create_popup.open)
           => op' = "create_popup_handle_key" /\ args'.key \in {"Esc", "Enter"} ]_vars
    /\ [][ (app.cleanup_popup.open /\ ~app'.cleanup_popup.open)
           => op' = "cleanup_popup_handle_key" /\ args'.key \in {"Esc", "Enter"} ]_vars
    /\ [][ (/\ InDone(app.create_popup)
            /\ app.create_popup.result.some /\ app.create_popup.result.val.ok
            /\ op' = "create_popup_handle_key" /\ args'.key \in {"Esc", "Enter"})
           => ~app'.create_popup.open /\ Refreshed ]_vars
    /\ [][ (/\ InDone(app.cleanup_popup)
            /\ app.cleanup_popup.results.some
            /\ op' = "cleanup_popup_handle_key" /\ args'.key \in {"Esc", "Enter"})
           => ~app'.cleanup_popup.open /\ Refreshed ]_vars
    /\ [][ (/\ BeforeExecuting(app.create_popup) \/ BeforeExecuting(app.cleanup_popup)
            /\ op' \in {"create_popup_handle_key", "cleanup_popup_handle_key"}
            /\ args'.key = "Esc")
           => /\ app'.last_refresh = app.last_refresh
              /\ app'.repos = app.repos
              /\ ~args'.launched ]_vars
    /\ [][ args'.launched =>
              /\ op' = "create_popup_handle_key"
              /\ InDone(app.create_popup)
              /\ app.create_popup.launch_after
              /\ app.create_popup.result.some
              /\ app.create_popup.result.val.ok
              /\ args'.launch.host = Hosts[app.create_popup.host_cursor + 1]
              /\ args'.launch.work_dir = app.create_popup.result.val.worktree_abs
              /\ args'.launch.task_id = app.create_popup.result.val.task_id
              /\ ~app'.create_popup.open ]_vars

\* the create popup was closed from Done with Enter: the second host was
\* launched in the worktree of the new task, and the reload shows that task
C26_Witness ==
    /\ op = "create_popup_handle_key"
    /\ args.launched
    /\ args.launch.host = "copilot"
    /\ args.launch.task_id = FormatId(3)
    /\ args.launch.work_dir \in worktrees
    /\ ~app.create_popup.open
    /\ app.last_refresh = 1
    /\ \E i \in DOMAIN app.repos :
          app.repos[i].task_id = FormatId(3) /\ ~app.repos[i].archived

\* a create call with pull set whose fetch or pull fails, in a repository
\* where the steps before them pass
FetchOrPullFails ==
    /\ op' = "create_worktree"
    /\ args'.pull
    /\ args'.fail \in {"fetch_spawn", "fetch", "pull_spawn", "pull"}
    /\ git_marker = "dir"

\* C27: when pull is set and git fetch or git pull fails, create_worktree
\* returns an error that names the command and carries its stderr (the OS
\* error when the command could not be started), and the disk is as before:
\* no task store directory, no task subdirectory, no registry line, no
\* worktree, no branch, and the next id is the same.
C27_PullFailureBeforeTaskStore ==
    [][ FetchOrPullFails =>
          /\ ~created'.ok
          /\ created'.err[1] =
                IF args'.fail \in {"fetch_spawn", "fetch"}
                THEN "git fetch failed: " ELSE "git pull failed: "
          /\ created'.err[2] =
                IF args'.fail \in {"fetch", "pull"} THEN args'.stderr ELSE "os error"
          /\ tasks_dir' = tasks_dir
          /\ store' = store
          /\ registry' = registry
          /\ worktrees' = worktrees
          /\ branches' = branches
          /\ get_next_task_id(tasks_dir', store') = get_next_task_id(tasks_dir, store)
      ]_vars

\* git pull failed in a repository that has no task store yet: still none
C27_Witness ==
    /\ op = "create_worktree"
    /\ args.pull
    /\ args.fail = "pull"
    /\ created.err = <<"git pull failed: ", "fatal: e2">>
    /\ ~tasks_dir
    /\ registry = <<>>
    /\ worktrees = {}

\* the id a create call made in the current state allocates
AllocatedId == get_next_task_id(tasks_dir, store)

\* the state document the create call left under the allocated id
WrittenDoc == store'[AllocatedId].state

\* C28: the state document create_worktree writes for the allocated id has
\* current phase "architect", no completed phase, iteration 1, an active
\* worktree binding with the computed branch and the detected base branch,
\* and the id's number modulo the palette size as color index; a successful
\* call returns the same id, branch, base branch and color index.
C28_InitialStateDocument ==
    [][ op' = "create_worktree" =>
          /\ WrittenDoc.k = "ok" =>
                /\ WrittenDoc.task_id = AllocatedId
                /\ WrittenDoc.phase = PHASE_ORDER[1]
                /\ WrittenDoc.phase = "architect"
                /\ WrittenDoc.phases_completed = {}
                /\ WrittenDoc.iteration = 1
                /\ WrittenDoc.wt = "active"
                /\ WrittenDoc.branch = generate_branch_name(args'.description)
                /\ WrittenDoc.base_branch = MainBranch
                /\ WrittenDoc.color_scheme_index = ParseNum(AllocatedId) % PaletteSize
          /\ created'.ok =>
                /\ WrittenDoc.k = "ok"
                /\ created'.task_id = AllocatedId
                /\ created'.branch_name = WrittenDoc.branch
                /\ created'.base_branch = WrittenDoc.base_branch
                /\ created'.color_scheme_index = WrittenDoc.color_scheme_index
      ]_vars

\* TASK_008 created after TASK_007: the color index wrapped to 0
C28_Witness ==
    /\ op = "create_worktree"
    /\ created.ok
    /\ created.task_id = FormatId(PaletteSize)
    /\ created.color_scheme_index = 0
    /\ store[created.task_id].state.phase = "architect"
    /\ store[created.task_id].state.color_scheme_index = 0

\* the lines of the log that parse as an entry
Parseable == {i \in DOMAIN registry : registry[i].ok}

\* C29: load_registry always returns a map; without a log file or lines the
\* map is empty, as it is for a file that cannot be read; in a log that was
\* read every parseable line is loaded whatever unparseable or blank
\* lines stand before or after it (the map has its id, bound to the last
\* parseable line with that id), and nothing else is in the map.
C29_RegistrySkipsBadLinesOnly ==
    op = "load_registry" =>
        /\ ~tasks_dir => DOMAIN loaded_registry = {}
        /\ ~args.read_ok => DOMAIN loaded_registry = {}
        /\ args.read_ok =>
              /\ DOMAIN loaded_registry = {registry[i].task_id : i \in Parseable}
              /\ \A i \in Parseable :
                    /\ registry[i].task_id \in DOMAIN loaded_registry
                    /\ \E j \in Parseable :
                          /\ j >= i
                          /\ registry[j].task_id = registry[i].task_id
                          /\ loaded_registry[registry[i].task_id] = registry[j]
                          /\ \A k \in Parseable :
                                registry[k].task_id = registry[i].task_id => k <= j
              /\ registry = <<>> => DOMAIN loaded_registry = {}

\* an entry, an unparseable line, then another entry: both entries loaded
C29_Witness ==
    /\ op = "load_registry"
    /\ args.read_ok
    /\ Len(registry) = 3
    /\ registry[1].ok
    /\ registry[2] = BadLine
    /\ registry[3].ok
    /\ registry[1].task_id # registry[3].task_id
    /\ DOMAIN loaded_registry = {registry[1].task_id, registry[3].task_id}

\* a blank line between two entries
C29_WitnessBlank ==
    /\ op = "load_registry"
    /\ args.read_ok
    /\ Len(registry) = 3
    /\ registry[1].ok
    /\ registry[2] = BlankLine
    /\ registry[3].ok
    /\ loaded_registry[registry[3].task_id] = registry[3]

\* what a poll that changes nothing returns
PollIdle == St(app, workers, FALSE)

\* C30: a poll made while the worker of the Executing flow has not terminated
\* returns with the popup and the worker as they were (step Executing, handle
\* held, no result recorded); a poll made with no popup open, or with the
\* popup in another step, changes nothing; a poll of one flow never touches
\* the popup or the worker of the other flow.
C30_PollNeverWaits ==
    /\ [](~CreateExecuting => create_popup_check_completion(app, workers) = PollIdle)
    /\ [](~CleanupExecuting => cleanup_popup_check_completion(app, workers) = PollIdle)
    /\ [][ (/\ op' = "create_popup_check_completion"
            /\ ~(CreateExecuting /\ Terminated(workers.create)))
           => /\ UNCHANGED <<app, workers>>
              /\ CreateExecuting =>
                    /\ app'.create_popup.step = "Executing"
                    /\ app'.create_popup.handle
                    /\ ~app'.create_popup.result.some
                    /\ workers'.create.state = "running" ]_vars
    /\ [][ (/\ op' = "cleanup_popup_check_completion"
            /\ ~(CleanupExecuting /\ Terminated(workers.cleanup)))
           => /\ UNCHANGED <<app, workers>>
              /\ CleanupExecuting =>
                    /\ app'.cleanup_popup.step = "Executing"
                    /\ app'.cleanup_popup.handle
                    /\ ~app'.cleanup_popup.results.some
                    /\ workers'.cleanup.state = "running" ]_vars
    /\ [][ op' = "create_popup_check_completion"
           => /\ app'.cleanup_popup = app.cleanup_popup
              /\ workers'.cleanup = workers.cleanup ]_vars
    /\ [][ op' = "cleanup_popup_check_completion"
           => /\ app'.create_popup = app.create_popup
              /\ workers'.create = workers.create ]_vars

\* the cleanup popup polled while its worker is still running
C30_Witness ==
    /\ op = "cleanup_popup_check_completion"
    /\ CleanupExecuting
    /\ workers.cleanup.state = "running"
    /\ app.cleanup_popup.handle
    /\ ~app.cleanup_popup.results.some

\* the ids of the parseable lines of the Registry Log
RegistryIds == {registry[i].task_id : i \in {j \in DOMAIN registry : registry[j].ok}}

\* C31: across creates that succeed or fail at the worktree add, and external
\* deletions of task subdirectories, the id a create allocates was never
\* appended to the Registry Log before, and the log never holds two entries
\* with the same id.
C31_NoIdAllocatedTwice ==
    /\ [](\A i, j \in DOMAIN registry :
             (i # j /\ registry[i].ok /\ registry[j].ok)
                => registry[i].task_id # registry[j].task_id)
    /\ [][ (op' = "create_worktree" /\ Len(registry') > Len(registry))
           => registry'[Len(registry')].task_id \notin RegistryIds ]_vars

\* the errors create_worktree returns after it has created the task
\* subdirectory
ErrorsAfterTaskDir ==
    {"Failed to write state.json: ", "Failed to create worktrees directory: ",
     "git worktree add failed: ", "Failed to create .tasks symlink: "}

\* C32: when create_worktree returns one of the errors that follow the
\* creation of the task subdirectory, the subdirectory of the allocated id
\* does not exist after the call.
C32_FailedCreateRemovesTaskDir ==
    [][ (/\ op' = "create_worktree"
         /\ ~created'.ok
         /\ created'.err[1] \in ErrorsAfterTaskDir)
        => ~store'[get_next_task_id(TRUE, store)].present ]_vars

\* the create that just returned failed in git worktree add, after the
\* registry line was appended, and removed its task subdirectory again
AddFailedAndRolledBack ==
    /\ op = "create_worktree"
    /\ ~created.ok
    /\ created.err[1] = "git worktree add failed: "
    /\ args.fail # "add_spawn"
    /\ args.append_ok
    /\ ~store[registry[Len(registry)].task_id].present

\* the id that create allocated: the one of the line it appended
FailedId == registry[Len(registry)].task_id

\* C33: the load that follows a create which failed at the worktree add holds
\* exactly one record with the allocated id, a non-live placeholder with the
\* description, branch and creation time of the registry line the create
\* appended, and the candidate list computed then has no entry with that id.
C33_FailedCreateStaysVisible ==
    [][ AddFailedAndRolledBack =>
          /\ op' = "load_tasks" =>
                /\ Cardinality({i \in DOMAIN tasks' : tasks'[i].task_id = FailedId}) = 1
                /\ \A i \in DOMAIN tasks' :
                      tasks'[i].task_id = FailedId =>
                         /\ tasks'[i].archived
                         /\ tasks'[i].description = args.description
                         /\ tasks'[i].branch = generate_branch_name(args.description)
                         /\ tasks'[i].created_at = registry[Len(registry)].created_at
          /\ op' = "list_cleanup_candidates" =>
                \A i \in DOMAIN candidates' : candidates'[i].task_id # FailedId
      ]_vars

\* the create call as it would have returned had the append succeeded
CreatedWithAppend ==
    create_worktree(git_marker, tasks_dir, store, registry, worktrees, branches,
                    args'.description, args'.pull,
                    [fail |-> args'.fail, append_ok |-> TRUE,
                     stderr |-> args'.stderr]).result

\* C34: an operation (create, cleanup run, load, candidate listing, refresh)
\* leaves every line of the Registry Log in place and unmodified; the log
\* changes only by one entry appended at its end by a create, for the id and
\* with the description and branch of that create; and a create whose append
\* fails returns what it would have returned otherwise, with the log as it was.
C34_RegistryAppendOnly ==
    [][ /\ Len(registry') >= Len(registry)
        /\ SubSeq(registry', 1, Len(registry)) = registry
        /\ Len(registry') <= Len(registry) + 1
        /\ Len(registry') = Len(registry) + 1 =>
              /\ op' = "create_worktree"
              /\ args'.append_ok
              /\ registry'[Len(registry')] =
                    RegLine(get_next_task_id(TRUE, store), args'.description,
                            generate_branch_name(args'.description))
        /\ op' # "create_worktree" => registry' = registry
        /\ (op' = "create_worktree" /\ ~args'.append_ok) =>
              /\ registry' = registry
              /\ created' = CreatedWithAppend
      ]_vars

\* a create that succeeded although its append failed: the log as before
C34_Witness ==
    /\ op = "create_worktree"
    /\ ~args.append_ok
    /\ created.ok
    /\ Len(registry) = 3
    /\ registry[2] = BadLine

\* a create that appended after an unparseable line
C34_WitnessAppended ==
    /\ op = "create_worktree"
    /\ args.append_ok
    /\ Len(registry) = 2
    /\ registry[1] = BadLine
    /\ registry[2].ok

\* Enter in the Preview step of the cleanup popup
CleanupStarts ==
    /\ app.cleanup_popup.open
    /\ app.cleanup_popup.step = "Preview"
    /\ app'.cleanup_popup.step = "Executing"

\* C35: the cleanup worker is started with the task ids of the preview's
\* actions, in their order, and with the remove_branch and keep_on_disk the
\* preview was computed with; while the popup is in the Preview step no event
\* changes its candidates, its selection, its flags or its preview.
C35_WorkerGetsWhatWasPreviewed ==
    /\ [][ CleanupStarts =>
             LET p == app.cleanup_popup
                 t == workers'.cleanup
             IN  /\ t.state = "running"
                 /\ t.ids = [k \in DOMAIN p.preview |-> p.preview[k].task_id]
                 /\ p.preview =
                       preview_cleanup(
                          SelectedCandidates(p.candidates, p.selected_iter),
                          t.remove_branch, t.keep_on_disk)
                 /\ \A k \in DOMAIN p.preview :
                       p.preview[k].commands =
                          (IF t.keep_on_disk THEN <<>> ELSE <<"git worktree remove">>)
                          \o (IF t.remove_branch THEN <<"git branch -d">> ELSE <<>>)
                          \o (IF t.keep_on_disk THEN <<"status recyclable">>
                              ELSE <<"status cleaned">>) ]_vars
    /\ [][ (/\ app.cleanup_popup.open
            /\ app.cleanup_popup.step = "Preview"
            /\ app'.cleanup_popup.open)
           => /\ app'.cleanup_popup.candidates = app.cleanup_popup.candidates
              /\ app'.cleanup_popup.selected = app.cleanup_popup.selected
              /\ app'.cleanup_popup.selected_iter = app.cleanup_popup.selected_iter
              /\ app'.cleanup_popup.remove_branch = app.cleanup_popup.remove_branch
              /\ app'.cleanup_popup.keep_on_disk = app.cleanup_popup.keep_on_disk
              /\ app'.cleanup_popup.preview = app.cleanup_popup.preview ]_vars

\* a worker started for TASK_002 and then TASK_001, as previewed, with the
\* branch removal the operator switched on
C35_Witness ==
    /\ app.cleanup_popup.open
    /\ app.cleanup_popup.step = "Executing"
    /\ workers.cleanup.state = "running"
    /\ workers.cleanup.ids = <<FormatId(2), FormatId(1)>>
    /\ workers.cleanup.remove_branch
    /\ Len(app.cleanup_popup.preview) = 2
    /\ app.cleanup_popup.preview[1].task_id = FormatId(2)

\* C36: in every state of the cleanup popup each selected index is an index
\* of the candidate list; the popup leaves SelectWorktrees only with a
\* candidate selected; and the worker is never started with an empty id list.
C36_SelectionWithinCandidates ==
    /\ [](app.cleanup_popup.open =>
             \A i \in app.cleanup_popup.selected :
                i >= 0 /\ i < Len(app.cleanup_popup.candidates))
    /\ [][ (/\ app.cleanup_popup.open
            /\ app.cleanup_popup.step = "SelectWorktrees"
            /\ app'.cleanup_popup.step = "Settings")
           => \E i \in app.cleanup_popup.selected :
                 i < Len(app.cleanup_popup.candidates) ]_vars
    /\ [](workers.cleanup.state = "running" => workers.cleanup.ids # <<>>)

\* a step of the create flow, or of the cleanup flow, that spawns a worker
CreateSpawns ==
    \/ app'.create_popup.handle /\ ~app.create_popup.handle
    \/ workers'.create.state = "running" /\ workers'.create # workers.create

CleanupSpawns ==
    \/ app'.cleanup_popup.handle /\ ~app.cleanup_popup.handle
    \/ workers'.cleanup.state = "running" /\ workers'.cleanup # workers.cleanup

\* C37: in both flows, between operations the popup holds a worker handle
\* exactly when its step is Executing; a start time is recorded exactly when
\* the step is Executing or a Done that was reached from Executing; and a
\* worker is spawned exactly at the step from Confirm (create) or Preview
\* (cleanup) to Executing, so once per popup run and never from Executing or
\* Done.
C37_HandleAndStartTimeFollowStep ==
    /\ [](app.create_popup.handle <=>
             (app.create_popup.open /\ app.create_popup.step = "Executing"))
    /\ [](app.cleanup_popup.handle <=>
             (app.cleanup_popup.open /\ app.cleanup_popup.step = "Executing"))
    /\ [](app.create_popup.started_at =>
             app.create_popup.open /\ app.create_popup.step \in {"Executing", "Done"})
    /\ [](app.cleanup_popup.started_at =>
             app.cleanup_popup.open /\ app.cleanup_popup.step \in {"Executing", "Done"})
    /\ [](app.create_popup.step = "Executing" => app.create_popup.started_at)
    /\ [](app.cleanup_popup.step = "Executing" => app.cleanup_popup.started_at)
    /\ [][ (app'.create_popup.step = "Done" /\ app.create_popup.step # "Done")
           => (app'.create_popup.started_at <=> app.create_popup.step = "Executing") ]_vars
    /\ [][ (app'.cleanup_popup.step = "Done" /\ app.cleanup_popup.step # "Done")
           => (app'.cleanup_popup.started_at <=> app.cleanup_popup.step = "Executing") ]_vars
    /\ [][ (app'.create_popup.step = "Done" /\ app.create_popup.step = "Done")
           => app'.create_popup.started_at = app.create_popup.started_at ]_vars
    /\ [][ (app'.cleanup_popup.step = "Done" /\ app.cleanup_popup.step = "Done")
           => app'.cleanup_popup.started_at = app.cleanup_popup.started_at ]_vars
    /\ [][ CreateSpawns <=>
             (/\ app.create_popup.open /\ app.create_popup.step = "Confirm"
              /\ app'.create_popup.open /\ app'.create_popup.step = "Executing") ]_vars
    /\ [][ CleanupSpawns <=>
             (/\ app.cleanup_popup.open /\ app.cleanup_popup.step = "Preview"
              /\ app'.cleanup_popup.open /\ app'.cleanup_popup.step = "Executing") ]_vars
    /\ [][ app'.create_popup.step = "Executing" /\ app.create_popup.step # "Executing"
           => app.create_popup.step = "Confirm" ]_vars
    /\ [][ app'.cleanup_popup.step = "Executing" /\ app.cleanup_popup.step # "Executing"
           => app.cleanup_popup.step = "Preview" ]_vars

\* the cleanup popup shows the results of its worker: no handle is left and
\* the start time of the run is still recorded
C37_Witness ==
    /\ op = "cleanup_popup_check_completion"
    /\ app.cleanup_popup.open
    /\ app.cleanup_popup.step = "Done"
    /\ app.cleanup_popup.started_at
    /\ ~app.cleanup_popup.handle
    /\ app.cleanup_popup.results.some
    /\ workers.cleanup = NoCleanupThread

\* the create popup shows a failed preview: no worker was ever spawned and no
\* start time is recorded
C37_WitnessNoRun ==
    /\ app.create_popup.open
    /\ app.create_popup.step = "Done"
    /\ ~app.create_popup.started_at
    /\ ~app.create_popup.handle
    /\ workers.create = NoCreateThread

\* the steps of the two flows in their declared order (CreateStep, CleanupStep)
CreateSteps ==
    <<"InputDescription", "SelectHost", "ToggleSettings", "Confirm", "Executing", "Done">>

CleanupSteps == <<"SelectWorktrees", "Settings", "Preview", "Executing", "Done">>

StepIndex(steps, s) == CHOOSE i \in DOMAIN steps : steps[i] = s

\* a step of one popup run of the create flow, or of the cleanup flow, that
\* changes the popup's step
CreateStepChanges ==
    /\ app.create_popup.open /\ app'.create_popup.open
    /\ app'.create_popup.step # app.create_popup.step

CleanupStepChanges ==
    /\ app.cleanup_popup.open /\ app'.cleanup_popup.open
    /\ app'.cleanup_popup.step # app.cleanup_popup.step

\* C38: the step of an open popup is one of the declared steps and starts at
\* the first; it only ever changes to the next step in the declared order,
\* except that a failed create preview goes from ToggleSettings to a Done
\* that shows the error; a Done that shows a success was entered from
\* Executing; Executing is entered only from Confirm (create) or Preview
\* (cleanup) with the preview computed; and in Done the step stays Done
\* until the popup is closed.
C38_StepsOnlyMoveForward ==
    /\ [](app.create_popup.open =>
             \E i \in DOMAIN CreateSteps : CreateSteps[i] = app.create_popup.step)
    /\ [](app.cleanup_popup.open =>
             \E i \in DOMAIN CleanupSteps : CleanupSteps[i] = app.cleanup_popup.step)
    /\ [][ (~app.create_popup.open /\ app'.create_popup.open)
           => app'.create_popup.step = CreateSteps[1] ]_vars
    /\ [][ (~app.cleanup_popup.open /\ app'.cleanup_popup.open)
           => app'.cleanup_popup.step = CleanupSteps[1] ]_vars
    /\ [][ CreateStepChanges =>
             \/ StepIndex(CreateSteps, app'.create_popup.step)
                   = StepIndex(CreateSteps, app.create_popup.step) + 1
             \/ /\ app.create_popup.step = "ToggleSettings"
                /\ app'.create_popup.step = "Done"
                /\ app'.create_popup.result.some
                /\ ~app'.create_popup.result.val.ok ]_vars
    /\ [][ CleanupStepChanges =>
             StepIndex(CleanupSteps, app'.cleanup_popup.step)
                = StepIndex(CleanupSteps, app.cleanup_popup.step) + 1 ]_vars
    /\ [][ (CreateStepChanges /\ app'.create_popup.step = "Executing")
           => app.create_popup.step = "Confirm" /\ app.create_popup.preview.some ]_vars
    /\ [][ (CleanupStepChanges /\ app'.cleanup_popup.step = "Executing")
           => /\ app.cleanup_popup.step = "Preview"
              /\ app.cleanup_popup.preview =
                    preview_cleanup(
                       SelectedCandidates(app.cleanup_popup.candidates,
                                          app.cleanup_popup.selected_iter),
                       app.cleanup_popup.remove_branch,
                       app.cleanup_popup.keep_on_disk) ]_vars
    /\ [][ (app.create_popup.open /\ app.create_popup.step = "Done")
           => \/ ~app'.create_popup.open
              \/ app'.create_popup = app.create_popup ]_vars
    /\ [][ (app.cleanup_popup.open /\ app.cleanup_popup.step = "Done")
           => \/ ~app'.cleanup_popup.open
              \/ app'.cleanup_popup.step = "Done" ]_vars

\* the create popup has gone through every step and shows the new worktree
C38_Witness ==
    /\ op = "create_popup_check_completion"
    /\ app.create_popup.open
    /\ app.create_popup.step = "Done"
    /\ app.create_popup.preview.some
    /\ app.create_popup.started_at
    /\ app.create_popup.result.some
    /\ app.create_popup.result.val.ok

\* the rows that flatten the loaded data of a under its expand state
FlattenedRows(a) ==
    <<RepoRow(0)>> \o
    (IF a.expanded THEN [k \in 1..Len(a.repos) |-> TaskRow(0, k - 1)] ELSE <<>>)

\* C39: a refresh leaves the rows of the completely reloaded data, never those
\* of the data it replaced; after every operation each row of the tree names
\* the watched repository and each task row an index of its loaded task list;
\* the rows are the flattening of the loaded data; and the cursor is the index
\* of a row whenever there are rows.
C39_TreeRowsFollowLoadedData ==
    /\ [][ op' = "refresh" =>
              /\ \E order \in Orders(store') :
                    app'.repos = load_tasks(tasks_dir', store', registry', order)
              /\ app'.tree_rows = FlattenedRows(app') ]_vars
    /\ [](\A i \in DOMAIN app.tree_rows :
             /\ app.tree_rows[i].kind \in {"Repo", "Task"}
             /\ app.tree_rows[i].ri = 0
             /\ app.tree_rows[i].kind = "Task" =>
                   app.tree_rows[i].ti >= 0 /\ app.tree_rows[i].ti < Len(app.repos))
    /\ [](app.tree_rows = FlattenedRows(app))
    /\ [](app.tree_rows # <<>> =>
             app.tree_cursor >= 0 /\ app.tree_cursor < Len(app.tree_rows))

\* a refresh has found the task list shorter than the tree it had: the rows
\* were rebuilt and the cursor, which stood on the last task row, was clamped
C39_Witness ==
    /\ op = "refresh"
    /\ app.expanded
    /\ Len(app.repos) = 1
    /\ Len(app.tree_rows) = 2
    /\ app.tree_cursor = 1
    /\ app.last_refresh = 1
    /\ ~store[FormatId(2)].present
    /\ nops = 1

====
